---- MODULE Spec2Model ----
(***************************************************************************)
(* cuOptIQAgent: the pipeline that turns a free-text query into a solved   *)
(* vehicle-routing problem.  process_query runs analyze -> modify ->       *)
(* prepare -> solve, then the visualization step, and _response_fn formats *)
(* the result.  Python dicts are records (the empty dict is <<>>), lists   *)
(* are sequences, text messages are sequences of string parts.             *)
(***************************************************************************)
EXTENDS Integers, Sequences, FiniteSets, TLC

VARIABLES
    query,           \* the input message of _response_fn / process_query
    config,          \* cuOptIQAgentFunctionConfig: cuopt_api_key, visualization_enabled
    environ,         \* os.environ: the value of CUOPT_API_KEY ("" when unset)
    pc,              \* position of the run inside process_query / _solve_fn / _response_fn
    state,           \* the FactoryState of the run
    llm_response,    \* local of _analyze_fn: what llm.ainvoke did
    analyze_result,  \* local of process_query: return value of analyze_fn
    modified_data,   \* local of process_query: return value of data_modifier_fn
    cuopt_input,     \* local of process_query: return value of cuopt_prep_fn
    solution,        \* local of process_query: return value of solver_fn
    transport_data,  \* local of _modify_data_fn: the order set it loaded
    calls,           \* history: the stage invocations, each with the input it received
    http,            \* locals of _solve_fn: the session's requests and the last response
    result,          \* return value of process_query
    files,           \* chart files in output_dir
    response_text,   \* return value of _response_fn
    builds,          \* history: the calls of _prepare_fn, each with its input and its return value
    logger,          \* the records the Data Modifier logged while applying the request
    chart,           \* the figure create_gantt_chart drew
    runs,            \* the queries one process serves side by side, each with its own locals
    heap,            \* the list objects the FactoryState instances refer to
    filesystem       \* the file system the runs share: chart files and the order file

vars == <<query, config, environ, pc, state, llm_response, analyze_result, modified_data, cuopt_input,
          solution, transport_data, calls, http, result, files, response_text, builds,
          logger, chart, runs, heap, filesystem>>

----------------------------------------------------------------------------
(* Python values *)

EmptyDict == <<>>
NotSet == [unset |-> TRUE]
None == "None"

Has(d, k) == k \in DOMAIN d
Get(d, k, default) == IF k \in DOMAIN d THEN d[k] ELSE default
SetKey(d, k, v) == [x \in (DOMAIN d) \cup {k} |-> IF x = k THEN v ELSE d[x]]

\* a JSON value that is not an object (array, number, string, null)
JsonScalar(v) == [json_scalar |-> v]
IsDict(v) == ~ Has(v, "json_scalar")
\* Python truthiness of a dict-or-scalar value used as a condition
Truthy(v) == v # EmptyDict /\ v # JsonScalar("null") /\ v # JsonScalar("false")

RECURSIVE SeqOfSet(_)
SeqOfSet(S) == IF S = {} THEN <<>> ELSE LET m == CHOOSE x \in S : \A y \in S : x <= y
                                       IN <<m>> \o SeqOfSet(S \ {m})
Range(s) == {s[i] : i \in 1..Len(s)}

----------------------------------------------------------------------------
(* Bounds of the model *)

MaxPolls == 2        \* the poll counters of one solve saturate here
MaxBuilds == 3       \* calls of the Problem Builder in one history
MaxSteps == 3        \* entries of a vehicle's route, type and arrival_stamp in a drawn schedule
MaxIndices == 2      \* entries of remove_orders.order_indices in a ChangeRequest

----------------------------------------------------------------------------
(* Query text: a sequence of atoms (a word, a digit or a blank), so that    *)
(* substring search sees "2 forklifts" inside "12 forklifts".              *)

Lower(a) == CASE a = "Use" -> "use"
              [] a = "Two" -> "two"
              [] a = "Forklifts" -> "forklifts"
              [] OTHER -> a
LowerText(q) == [i \in 1..Len(q) |-> Lower(q[i])]

\* pat in text (Python substring test)
Contains(text, pat) ==
    \E i \in 0..(Len(text) - Len(pat)) : \A j \in 1..Len(pat) : text[i + j] = pat[j]

Queries == {
    <<"optimize", " ", "routes">>,
    <<"use", " ", "2", " ", "forklifts">>,
    <<"Use", " ", "Two", " ", "Forklifts">>,
    <<"use", " ", "1", "2", " ", "forklifts">>,
    <<"use", " ", "3", " ", "forklifts", " ", "carry", " ", "two">>,
    <<"remove", " ", "order", " ", "1">> }

----------------------------------------------------------------------------
(* Query Interpreter: analyze_query_function.py *)

create_default_analysis(q) ==
    LET lq == LowerText(q)
        base == [ query_type |-> "route_optimization",
                  transport_data_changes |->
                      [ modify_service_times |-> [needed |-> FALSE],
                        modify_time_windows |-> [needed |-> FALSE],
                        remove_orders |-> [needed |-> FALSE] ],
                  fleet_changes |->
                      [ modify_capacity |-> [needed |-> FALSE],
                        modify_fleet_size |-> [needed |-> FALSE] ],
                  required_analyses |-> [visualization_needed |-> TRUE] ]
        size == IF Contains(lq, <<"2", " ", "forklifts">>) \/ Contains(lq, <<"two", " ", "forklifts">>)
                THEN [needed |-> TRUE, new_size |-> 2]
                ELSE IF Contains(lq, <<"3", " ", "forklifts">>) \/ Contains(lq, <<"three", " ", "forklifts">>)
                THEN [needed |-> TRUE, new_size |-> 3]
                ELSE base.fleet_changes.modify_fleet_size
        cap == IF \/ Contains(lq, <<"two", " ", "items">>)
                  \/ Contains(lq, <<"2", " ", "items">>)
                  \/ Contains(lq, <<"carry", " ", "two">>)
               THEN [needed |-> TRUE, new_capacity |-> 2]
               ELSE base.fleet_changes.modify_capacity
    IN [base EXCEPT !.fleet_changes = [modify_capacity |-> cap, modify_fleet_size |-> size]]

(* The language model's answer: ainvoke raises, or response.content is a   *)
(* text of atoms: "x" is prose, "{" "}" "[" "]" are themselves, any other  *)
(* atom names the members of a JSON object (LLMObject).                    *)

Order(pl, dl, dem, ep, lp, ps, ed, ld, ds) ==
    [ pickup_location |-> pl, delivery_location |-> dl, order_demand |-> dem,
      earliest_pickup |-> ep, latest_pickup |-> lp, pickup_service_time |-> ps,
      earliest_delivery |-> ed, latest_delivery |-> ld, delivery_service_time |-> ds ]

NoChanges ==
    [ modify_service_times |-> [needed |-> FALSE, new_value |-> JsonScalar("null")],
      modify_time_windows |-> [needed |-> FALSE],
      remove_orders |-> [needed |-> FALSE, order_indices |-> <<>>] ]
NoFleetChanges ==
    [ modify_capacity |-> [needed |-> FALSE], modify_fleet_size |-> [needed |-> FALSE] ]
FullObject(qt, changes, fleet, orders, viz) ==
    [ query_type |-> qt, transport_data_changes |-> changes, fleet_changes |-> fleet,
      new_orders |-> orders,
      required_analyses |-> [baseline_needed |-> FALSE, visualization_needed |-> viz,
                             conflict_analysis |-> FALSE] ]

LLMObject(p) ==
    CASE p = "noop" ->
           FullObject("route_optimization", NoChanges, NoFleetChanges, <<>>, FALSE)
      [] p = "remove0" ->
           FullObject("remove_order",
                      [NoChanges EXCEPT !.remove_orders = [needed |-> TRUE, order_indices |-> <<0>>]],
                      NoFleetChanges, <<>>, TRUE)
      [] p = "remove20" ->
           FullObject("remove_order",
                      [NoChanges EXCEPT !.remove_orders = [needed |-> TRUE, order_indices |-> <<2, 0>>]],
                      NoFleetChanges, <<>>, TRUE)
      [] p = "remove9" ->
           FullObject("remove_order",
                      [NoChanges EXCEPT !.remove_orders = [needed |-> TRUE, order_indices |-> <<9>>]],
                      NoFleetChanges, <<>>, TRUE)
      [] p = "removeAll" ->
           FullObject("remove_order",
                      [NoChanges EXCEPT !.remove_orders =
                           [needed |-> TRUE, order_indices |-> <<0, 1, 2, 3, 4, 5, 6, 7, 8>>]],
                      NoFleetChanges, <<>>, TRUE)
      [] p = "fleet" ->
           FullObject("route_optimization", NoChanges,
                      [ modify_capacity |-> [needed |-> TRUE, new_capacity |-> 3],
                        modify_fleet_size |-> [needed |-> TRUE, new_size |-> 2] ],
                      <<>>, TRUE)
      [] p = "fleetNoSize" ->
           FullObject("route_optimization", NoChanges,
                      [ modify_capacity |-> [needed |-> FALSE],
                        modify_fleet_size |-> [needed |-> TRUE] ],
                      <<>>, TRUE)
      [] p = "add" ->
           FullObject("add_order",
                      [NoChanges EXCEPT !.remove_orders = [needed |-> TRUE, order_indices |-> <<1>>]],
                      NoFleetChanges, <<Order(4, 6, 2, 0, 15, 2, 0, 55, 2)>>, TRUE)
      [] p = "addPartial" ->
           FullObject("add_order", NoChanges, NoFleetChanges,
                      <<[pickup_location |-> 4, delivery_location |-> 6]>>, TRUE)
      [] p = "edits" ->
           FullObject("loading_time_analysis",
                      [NoChanges EXCEPT !.modify_service_times = [needed |-> TRUE, new_value |-> JsonScalar("5")],
                                        !.modify_time_windows = [needed |-> TRUE],
                                        !.remove_orders = [needed |-> FALSE, order_indices |-> <<0>>]],
                      NoFleetChanges, <<>>, TRUE)
      [] p = "badEdit" ->
           FullObject("loading_time_analysis",
                      [NoChanges EXCEPT !.modify_service_times = JsonScalar("5")],
                      NoFleetChanges, <<>>, TRUE)
      [] p = "onlyType" -> [query_type |-> "conflict_analysis"]
      [] p = "badAnalyses" ->
           [query_type |-> "route_optimization", required_analyses |-> JsonScalar("5")]
      [] p = "badChanges" ->
           [query_type |-> "route_optimization", transport_data_changes |-> JsonScalar("5")]

Payloads == {"noop", "remove0", "remove20", "remove9", "removeAll", "fleet", "fleetNoSize", "add",
             "addPartial", "edits", "badEdit", "onlyType", "badAnalyses", "badChanges"}

LLMContents ==
    {<<"{", p, "}">> : p \in Payloads} \cup
    { <<"{", "}">>,                                   \* the empty object
      <<"[", "]">>,                                   \* JSON, but an array
      <<"7">>,                                        \* JSON, but a number
      <<"x">>,                                        \* prose only
      <<"x", "{", "remove0", "}", "x">>,              \* an object embedded in prose
      <<"x", "{", "noop", "}", "x", "{", "fleet", "}">>,  \* two objects in prose
      <<"}", "x", "{">>,                              \* last } before first {
      <<"x", "{", "x">> }                             \* no closing brace

LLMOutcomes == {[raises |-> TRUE]} \cup {[raises |-> FALSE, content |-> c] : c \in LLMContents}

\* json.loads: [ok, value]
json_loads(text) ==
    IF Len(text) = 3 /\ text[1] = "{" /\ text[3] = "}" /\ text[2] \in Payloads
        THEN [ok |-> TRUE, value |-> LLMObject(text[2])]
    ELSE IF text = <<"{", "}">> THEN [ok |-> TRUE, value |-> EmptyDict]
    ELSE IF text = <<"[", "]">> THEN [ok |-> TRUE, value |-> JsonScalar("array")]
    ELSE IF text = <<"7">> THEN [ok |-> TRUE, value |-> JsonScalar("7")]
    ELSE [ok |-> FALSE]

\* str.find / str.rfind (0-based, -1 when absent) and the slice content[a:b]
find(text, a) ==
    IF \E i \in 1..Len(text) : text[i] = a
    THEN (CHOOSE i \in 1..Len(text) : text[i] = a /\ \A j \in 1..(i - 1) : text[j] # a) - 1
    ELSE -1
rfind(text, a) ==
    IF \E i \in 1..Len(text) : text[i] = a
    THEN (CHOOSE i \in 1..Len(text) : text[i] = a /\ \A j \in (i + 1)..Len(text) : text[j] # a) - 1
    ELSE -1
Slice(text, a, b) == SubSeq(text, a + 1, b)

\* ParseAnalysis without the search for an embedded object
ParseAnalysis_direct(q, content) ==
    LET direct == json_loads(content)
    IN IF direct.ok THEN direct.value ELSE create_default_analysis(q)

\* lines 131-146: the parsed analysis, or the default analysis
ParseAnalysis(q, content) ==
    LET direct == json_loads(content)
        start_idx == find(content, "{")
        end_idx == rfind(content, "}") + 1
    IN IF direct.ok THEN direct.value
       ELSE IF start_idx >= 0 /\ end_idx > start_idx
            THEN LET inner == json_loads(Slice(content, start_idx, end_idx))
                 IN IF inner.ok THEN inner.value ELSE create_default_analysis(q)
            ELSE create_default_analysis(q)

\* lines 148-151 raise TypeError unless analysis and its required_analyses are dicts
ForceVisualizationRaises(analysis) ==
    \/ ~ IsDict(analysis)
    \/ Has(analysis, "required_analyses") /\ ~ IsDict(analysis.required_analyses)

\* ForceVisualization that only fills in a missing required_analyses
ForceVisualization_missing(analysis) ==
    IF ~ Has(analysis, "required_analyses")
    THEN SetKey(analysis, "required_analyses", [visualization_needed |-> TRUE])
    ELSE analysis

\* lines 148-151
ForceVisualization(analysis) ==
    LET a1 == IF ~ Has(analysis, "required_analyses")
              THEN SetKey(analysis, "required_analyses", EmptyDict) ELSE analysis
    IN SetKey(a1, "required_analyses", SetKey(a1.required_analyses, "visualization_needed", TRUE))

_analyze_fn(q, llm) ==
    IF llm.raises THEN create_default_analysis(q)
    ELSE LET analysis == ParseAnalysis(q, llm.content)
         IN IF ForceVisualizationRaises(analysis) THEN create_default_analysis(q)
            ELSE ForceVisualization(analysis)

----------------------------------------------------------------------------
(* Data Modifier: data_modifier_function.py *)

\* the value pandas puts in a cell that has no integer (a missing column of
\* a new order, an empty cell of the file); int() of it raises ValueError
NaN == -999

OrderColumns == {"pickup_location", "delivery_location", "order_demand",
                 "earliest_pickup", "latest_pickup", "pickup_service_time",
                 "earliest_delivery", "latest_delivery", "delivery_service_time"}

DefaultTransportData == <<
    Order(1, 5, 1, 0, 10, 2, 0, 55, 2),
    Order(1, 5, 1, 0, 20, 2, 0, 55, 2),
    Order(3, 5, 1, 0, 30, 2, 0, 55, 2),
    Order(2, 6, 1, 0, 10, 2, 0, 55, 2),
    Order(3, 7, 1, 0, 20, 2, 0, 55, 2),
    Order(4, 7, 1, 0, 30, 2, 0, 55, 2),
    Order(1, 8, 1, 0, 10, 2, 0, 55, 2),
    Order(2, 8, 1, 0, 20, 2, 0, 55, 2),
    Order(2, 8, 1, 0, 30, 2, 0, 55, 2) >>

\* what the search for transport_order_data.csv finds
CsvFiles == {
    [found |-> FALSE],
    [found |-> TRUE, readable |-> FALSE],
    [found |-> TRUE, readable |-> TRUE, rows |-> <<>>],
    [found |-> TRUE, readable |-> TRUE,
     rows |-> <<Order(2, 6, 3, 0, 10, 2, 0, 55, 2), Order(1, 7, NaN, 0, 20, 2, 0, 55, 2)>>] }

\* lines 35-80: the loaded order set (read_csv raises on an unreadable file)
LoadRaises(csv) == csv.found /\ ~ csv.readable
LoadTransportData(csv) == IF csv.found THEN csv.rows ELSE DefaultTransportData

\* DataFrame.drop(labels).reset_index(drop=True); KeyError for a label not in the index
DropRaises(rows, labels) == \E i \in 1..Len(labels) : labels[i] \notin 0..(Len(rows) - 1)
RECURSIVE KeepRows(_, _, _)
KeepRows(rows, labels, i) ==
    IF i > Len(rows) THEN <<>>
    ELSE (IF (i - 1) \in Range(labels) THEN <<>> ELSE <<rows[i]>>) \o KeepRows(rows, labels, i + 1)
\* Drop that takes the labels as positions counted from 1
Drop_from_one(rows, labels) == KeepRows(rows, [i \in 1..Len(labels) |-> labels[i] - 1], 1)

Drop(rows, labels) == KeepRows(rows, labels, 1)

\* pd.DataFrame(new_orders) and pd.concat(..., ignore_index=True): a column
\* a new order lacks is filled with NaN
AsRow(o) == [c \in OrderColumns |-> IF c \in DOMAIN o THEN o[c] ELSE NaN]
\* Concat putting the new orders in front
Concat_front(rows, new_orders) == [i \in 1..Len(new_orders) |-> AsRow(new_orders[i])] \o rows

Concat(rows, new_orders) == rows \o [i \in 1..Len(new_orders) |-> AsRow(new_orders[i])]

ModifyError(detail) == [error |-> <<"Data modification failed: ", detail>>]

\* Removing that looks at the indices only, not at the needed flag
Removing_indices(remove_orders) == Get(remove_orders, "order_indices", <<>>) # <<>>

\* lines 89-92: the orders at order_indices are dropped
Removing(remove_orders) ==
    /\ Truthy(remove_orders)
    /\ Get(remove_orders, "needed", FALSE)
    /\ Get(remove_orders, "order_indices", <<>>) # <<>>

\* line 97
Adding(new_orders) == new_orders # <<>>

\* lines 103-104 and 109-110: .get on an edit flag that is not an object raises
EditRaises(transport_data_changes) ==
    \E e \in {"modify_service_times", "modify_time_windows"} :
        LET changes == Get(transport_data_changes, e, EmptyDict)
        IN Truthy(changes) /\ ~ IsDict(changes)

\* EditNeeded: an edit flag that is an object with needed = true
EditNeeded(transport_data_changes, e) ==
    LET changes == Get(transport_data_changes, e, EmptyDict)
    IN Truthy(changes) /\ IsDict(changes) /\ Get(changes, "needed", FALSE)

\* EditOrders writing the new service time into every order
EditOrders_applied(rows, transport_data_changes) ==
    IF EditNeeded(transport_data_changes, "modify_service_times")
    THEN [i \in 1..Len(rows) |-> [rows[i] EXCEPT !.pickup_service_time = 5]]
    ELSE rows

\* lines 102-112: the branches of the two edits assign nothing to modified_data
EditOrders(rows, transport_data_changes) == rows

_modify_data_fn(analysis_result, csv) ==
    IF LoadRaises(csv) THEN ModifyError("Error tokenizing data")
    ELSE
    LET loaded == LoadTransportData(csv)
        transport_data_changes == Get(analysis_result, "transport_data_changes", EmptyDict)
        new_orders == Get(analysis_result, "new_orders", <<>>)
    IN IF ~ IsDict(transport_data_changes)
       THEN ModifyError("'int' object has no attribute 'get'")
       ELSE
       LET remove_orders == Get(transport_data_changes, "remove_orders", EmptyDict)
           order_indices == Get(remove_orders, "order_indices", <<>>)
           removing == Removing(remove_orders)
       IN IF removing /\ DropRaises(loaded, order_indices)
          THEN ModifyError("not found in axis")
          ELSE
          LET after_removal == IF removing THEN Drop(loaded, order_indices) ELSE loaded
              after_addition == IF Adding(new_orders) THEN Concat(after_removal, new_orders)
                                ELSE after_removal
          IN IF EditRaises(transport_data_changes)
             THEN ModifyError("'int' object has no attribute 'get'")
             ELSE [ transport_data |-> EditOrders(after_addition, transport_data_changes),
                    fleet_changes |-> Get(analysis_result, "fleet_changes", EmptyDict),
                    query_type |-> Get(analysis_result, "query_type", "route_optimization") ]

\* lines 84-127: the records _modify_data_fn logs once the order set is loaded
Info(message) == [level |-> "INFO", message |-> message]
ModificationLog(analysis_result, loaded) ==
    LET transport_data_changes == Get(analysis_result, "transport_data_changes", EmptyDict)
        new_orders == Get(analysis_result, "new_orders", <<>>)
        failed == <<[level |-> "ERROR", message |-> "Data modification failed"]>>
    IN IF ~ IsDict(transport_data_changes) THEN failed
       ELSE
       LET remove_orders == Get(transport_data_changes, "remove_orders", EmptyDict)
           removing == Removing(remove_orders)
           Edit(e, message) == IF EditNeeded(transport_data_changes, e) THEN <<Info(message)>> ELSE <<>>
           Scalar(e) == LET changes == Get(transport_data_changes, e, EmptyDict)
                        IN Truthy(changes) /\ ~ IsDict(changes)
       IN IF removing /\ DropRaises(loaded, Get(remove_orders, "order_indices", <<>>)) THEN failed
          ELSE (IF removing THEN <<Info("Removed orders at indices")>> ELSE <<>>) \o
               (IF Adding(new_orders) THEN <<Info("Added new orders")>> ELSE <<>>) \o
               (IF Scalar("modify_service_times") THEN failed
                ELSE Edit("modify_service_times", "Modified service times") \o
                     (IF Scalar("modify_time_windows") THEN failed
                      ELSE Edit("modify_time_windows", "Modified time windows") \o
                           <<Info("Data modification completed successfully")>>))

----------------------------------------------------------------------------
(* Problem Builder: cuopt_preparation_function.py *)

WAYPOINT_GRAPH ==
    [ edges |-> <<1, 2, 3, 4, 5, 6, 7, 8, 0, 5, 6, 7, 8, 0, 5, 6, 7, 8, 0, 5, 6, 7, 8, 0,
                  5, 6, 7, 8, 0, 1, 2, 3, 4, 0, 1, 2, 3, 4, 0, 1, 2, 3, 4, 0, 1, 2, 3, 4>>,
      offsets |-> <<0, 8, 13, 18, 23, 28, 33, 38, 43, 48>>,
      weights |-> <<1, 2, 3, 4, 1, 2, 3, 4, 1, 2, 3, 3, 4, 2, 3, 4, 4, 5, 3, 5, 4, 4, 4, 4,
                    5, 4, 3, 3, 1, 2, 3, 5, 5, 2, 3, 4, 4, 4, 3, 3, 4, 4, 3, 4, 4, 5, 4, 3>> ]

DefaultFleetSize == 4
DefaultCapacity == 1
VehicleWindowEnd == 100
TimeLimit == 5

PrepareError(parts) == [error |-> <<"cuOpt preparation failed: ">> \o parts]

\* int(row[c]) raises for some column c of the row
RowRaises(row) == \E c \in OrderColumns : row[c] = NaN
\* FirstBadRow counting the rows from 1
FirstBadRow_from_one(rows) ==
    IF \E i \in 1..Len(rows) : RowRaises(rows[i])
    THEN CHOOSE i \in 1..Len(rows) :
             RowRaises(rows[i]) /\ \A j \in 1..(i - 1) : ~ RowRaises(rows[j])
    ELSE -1

\* the first row (0-based idx) whose coercion raises, or -1
FirstBadRow(rows) ==
    IF \E i \in 1..Len(rows) : RowRaises(rows[i])
    THEN (CHOOSE i \in 1..Len(rows) :
              RowRaises(rows[i]) /\ \A j \in 1..(i - 1) : ~ RowRaises(rows[j])) - 1
    ELSE -1

\* TaskArray with all pickup entries first and all delivery entries after them
TaskArray_blocks(pickups, deliveries) == pickups \o deliveries

\* lines 81-91: per order one pickup entry, then one delivery entry
TaskArray(pickups, deliveries) ==
    [k \in 1..(2 * Len(pickups)) |->
        IF k % 2 = 1 THEN pickups[(k + 1) \div 2] ELSE deliveries[k \div 2]]

\* NumForklifts adding the requested size to the default fleet
NumForklifts_merged(fleet_changes) ==
    LET change == Get(fleet_changes, "modify_fleet_size", EmptyDict)
    IN IF Get(change, "needed", FALSE) THEN DefaultFleetSize + change.new_size
       ELSE DefaultFleetSize

\* lines 100 and 105-106: num_forklifts
NumForklifts(fleet_changes) ==
    LET change == Get(fleet_changes, "modify_fleet_size", EmptyDict)
    IN IF Get(change, "needed", FALSE) THEN change.new_size ELSE DefaultFleetSize

\* lines 101 and 110-111: forklift_capacity
ForkliftCapacity(fleet_changes) ==
    LET change == Get(fleet_changes, "modify_capacity", EmptyDict)
    IN IF Get(change, "needed", FALSE) THEN change.new_capacity ELSE DefaultCapacity

\* FleetChangesOf in which a fleet change, once needed, stays in force for
\* the next call that asks for none
FleetChangesOf_sticky(input_data) ==
    LET own == Get(input_data, "fleet_changes", EmptyDict)
        Needed(f) == \E e \in DOMAIN f : Get(f[e], "needed", FALSE)
        last == Get(builds[Len(builds)].input.arg, "fleet_changes", EmptyDict)
    IN IF builds # <<>> /\ ~ Needed(own) THEN last ELSE own

\* line 104
FleetChangesOf(input_data) == Get(input_data, "fleet_changes", EmptyDict)

_prepare_fn(input_data) ==
    LET rows == Get(input_data, "transport_data", <<>>)
    IN IF ~ Has(input_data, "transport_data") \/ Len(rows) = 0
       THEN PrepareError(<<"Transport data is missing or empty">>)
       ELSE IF FirstBadRow(rows) >= 0
       THEN PrepareError(<<"Invalid data in row ", ToString(FirstBadRow(rows)), ": ",
                           "cannot convert float NaN to integer">>)
       ELSE
       LET fleet_changes == FleetChangesOf(input_data)
           size_change == Get(fleet_changes, "modify_fleet_size", EmptyDict)
           cap_change == Get(fleet_changes, "modify_capacity", EmptyDict)
           size_needed == Get(size_change, "needed", FALSE)
           cap_needed == Get(cap_change, "needed", FALSE)
       IN IF size_needed /\ ~ Has(size_change, "new_size") THEN PrepareError(<<"'new_size'">>)
          ELSE IF cap_needed /\ ~ Has(cap_change, "new_capacity")
          THEN PrepareError(<<"'new_capacity'">>)
          ELSE
          LET num_forklifts == NumForklifts(fleet_changes)
              forklift_capacity == ForkliftCapacity(fleet_changes)
              N == Len(rows)
          IN [ cost_waypoint_graph_data |-> [waypoint_graph |-> ("0" :> WAYPOINT_GRAPH)],
               task_data |->
                   [ task_locations |->
                         TaskArray([i \in 1..N |-> rows[i].pickup_location],
                                   [i \in 1..N |-> rows[i].delivery_location]),
                     demand |->
                         <<TaskArray([i \in 1..N |-> rows[i].order_demand],
                                     [i \in 1..N |-> 0 - rows[i].order_demand])>>,
                     task_time_windows |->
                         TaskArray([i \in 1..N |-> <<rows[i].earliest_pickup, rows[i].latest_pickup>>],
                                   [i \in 1..N |-> <<rows[i].earliest_delivery, rows[i].latest_delivery>>]),
                     service_times |->
                         TaskArray([i \in 1..N |-> rows[i].pickup_service_time],
                                   [i \in 1..N |-> rows[i].delivery_service_time]),
                     pickup_and_delivery_pairs |->
                         [i \in 1..Len(rows) |-> <<2 * (i - 1), 2 * (i - 1) + 1>>] ],
               fleet_data |->
                   [ vehicle_locations |-> [v \in 1..num_forklifts |-> <<0, 0>>],
                     capacities |-> <<[v \in 1..num_forklifts |-> forklift_capacity]>>,
                     vehicle_time_windows |-> [v \in 1..num_forklifts |-> <<0, VehicleWindowEnd>>] ],
               solver_config |-> [time_limit |-> TimeLimit] ]

----------------------------------------------------------------------------
(* Solver Gateway: cuopt_solver_function.py *)

CUOPT_INVOKE_URL == <<"https://optimize.api.nvidia.com/v1/nvidia/cuopt">>
CUOPT_STATUS_URL == <<"https://optimize.api.nvidia.com/v1/status/">>

readable_map ==
    [ l \in 0..8 |->
        CASE l = 0 -> ": Forklift"
          [] l = 1 -> ": Insulation"
          [] l = 2 -> ": Weather Stripping"
          [] l = 3 -> ": Fiber Glass"
          [] l = 4 -> ": Shingles"
          [] l = 5 -> ": Truck 1"
          [] l = 6 -> ": Truck 2"
          [] l = 7 -> ": Truck 3"
          [] l = 8 -> ": Truck 4" ]

\* what the remote may answer: solver_response objects ...
Vehicle(route, type, stamps) == [route |-> route, type |-> type, arrival_stamp |-> stamps]

SolverResponses == {
    [ status |-> "0", solution_cost |-> "31",
      vehicle_data |->
          ("0" :> Vehicle(<<0, 1, 5, 0>>, <<"Depot", "Pickup", "Delivery", "Depot">>, <<0, 1, 4, 9>>)) @@
          ("1" :> Vehicle(<<0, 2, 2, 6, 0>>, <<"Depot", "w", "Pickup", "Delivery", "Depot">>,
                          <<0, 2, 5, 8, 12>>)) ],
    [ status |-> "0", solution_cost |-> "12",
      vehicle_data |->
          ("0" :> Vehicle(<<0, 3, 7, 0, 0>>, <<"Depot", "Pickup", "Delivery">>, <<0, 3, 6>>)) @@
          ("1" :> Vehicle(<<>>, <<>>, <<>>)) @@
          ("2" :> Vehicle(<<0, 4>>, <<"Depot", "Pickup", "Delivery">>, <<0, 2, 5>>)) ],
    [ status |-> "1", solution_cost |-> "20",
      vehicle_data |->
          ("0" :> Vehicle(<<0, 1, 5, 0>>, <<"Depot", "Pickup", "Delivery", "Depot">>, <<0, 1, 4, 9>>)) @@
          ("A" :> Vehicle(<<0, 2, 6, 0>>, <<"Depot", "Pickup", "Delivery", "Depot">>, <<0, 2, 5, 8>>)) ],
    [ status |-> "0", solution_cost |-> "15",
      vehicle_data |->
          ("0" :> Vehicle(<<0, 9, 5, 0>>, <<"Depot", "Pickup", "Delivery", "Depot">>, <<0, 1, 4, 9>>)) ],
    [ solution_cost |-> "0" ] }

\* ... the JSON bodies around them ...
GoodBody(sr) == [json |-> TRUE, value |-> [response |-> [solver_response |-> sr]]]
NotJsonBody == [json |-> FALSE]
HttpBodies ==
    {GoodBody(sr) : sr \in SolverResponses} \cup
    { NotJsonBody,
      [json |-> TRUE, value |-> [detail |-> "x"]],
      [json |-> TRUE, value |-> [response |-> [solver_infeasible_response |-> "x"]]] }

AnyGoodBody == GoodBody(CHOOSE sr \in SolverResponses : Get(sr, "status", None) = "1")

\* ... and the responses carrying them
Response(code, headers, body) == [status_code |-> code, headers |-> headers, body |-> body]
ReqId(id) == ("NVCF-REQID" :> id)
HttpResponses ==
    { Response(202, ReqId(id), NotJsonBody) : id \in {"req-1", "req-2"} } \cup
    { Response(202, EmptyDict, NotJsonBody) } \cup
    { Response(200, EmptyDict, b) : b \in HttpBodies } \cup
    { Response(204, EmptyDict, NotJsonBody),
      Response(300, EmptyDict, AnyGoodBody),
      Response(404, EmptyDict, AnyGoodBody),
      Response(500, EmptyDict, NotJsonBody) }
\* session.post / session.get return a response or raise (network error)
HttpOutcomes == {[raises |-> TRUE]} \cup {[raises |-> FALSE, response |-> r] : r \in HttpResponses}

SolverError(parts) == [error |-> <<"Error in CuOpt solver: ">> \o parts]

\* ApiKey with a placeholder key instead of the empty default
ApiKey_placeholder(cfg, env) ==
    IF cfg.cuopt_api_key # "" THEN cfg.cuopt_api_key
    ELSE IF env # "" THEN env ELSE "nvapi-placeholder"

\* lines 58-60
ApiKey(cfg, env) == IF cfg.cuopt_api_key # "" THEN cfg.cuopt_api_key ELSE env

\* lines 66-68
ExtractInput(input_data) ==
    IF Has(input_data, "cuopt_input") THEN input_data.cuopt_input ELSE input_data

\* Accepted testing for 200 instead of 202
Accepted_200(response) == response.status_code = 200

\* line 96: the loop polls while this holds
Accepted(response) == response.status_code = 202

\* PollUrl at the solve endpoint instead of the status endpoint
PollUrl_invoke(response) == CUOPT_INVOKE_URL \o <<response.headers["NVCF-REQID"]>>

\* PollUrl that keeps asking for one fixed request id
PollUrl_fixed(response) == CUOPT_STATUS_URL \o <<"req-1">>

\* lines 97-99: fetch_url
PollUrl(response) == CUOPT_STATUS_URL \o <<response.headers["NVCF-REQID"]>>

\* requests' Response.raise_for_status raises HTTPError exactly for 4xx and 5xx
raise_for_status_raises(response) == response.status_code >= 400 /\ response.status_code < 600

\* ConvertSteps that keeps the waits
ConvertSteps_waits(vehicle_data, i) ==
    IF i <= Len(vehicle_data.type) THEN <<i>> ELSE <<>>

\* lines 124-136
ConvertSteps(vehicle_data, i) ==
    IF i <= Len(vehicle_data.type) /\ vehicle_data.type[i] # "w"
    THEN <<i>> ELSE <<>>
RECURSIVE KeptIndices(_, _)
KeptIndices(vehicle_data, i) ==
    IF i > Len(vehicle_data.route) THEN <<>>
    ELSE ConvertSteps(vehicle_data, i) \o KeptIndices(vehicle_data, i + 1)
ConvertRaises(vehicles) ==
    \E v \in DOMAIN vehicles :
        \E i \in Range(KeptIndices(vehicles[v], 1)) : vehicles[v].route[i] \notin DOMAIN readable_map
\* ConvertedRoute pairing the n-th kept activity tag with the n-th location
ConvertedRoute_unpaired(vehicles) ==
    [ v \in DOMAIN vehicles |->
        LET kept == KeptIndices(vehicles[v], 1)
        IN [ n \in 1..Len(kept) |->
               <<vehicles[v].type[kept[n]], readable_map[vehicles[v].route[n]]>> ] ]

ConvertedRoute(vehicles) ==
    [ v \in DOMAIN vehicles |->
        LET kept == KeptIndices(vehicles[v], 1)
        IN [ n \in 1..Len(kept) |->
               <<vehicles[v].type[kept[n]], readable_map[vehicles[v].route[kept[n]]]>> ] ]
BadLocation(vehicles) ==
    CHOOSE l \in 0..99 :
        \E v \in DOMAIN vehicles :
            \E i \in Range(KeptIndices(vehicles[v], 1)) :
                vehicles[v].route[i] = l /\ l \notin DOMAIN readable_map

\* lines 104-158: what _solve_fn returns for the terminal response
ProcessResponse(response) ==
    IF raise_for_status_raises(response)
    THEN SolverError(<<ToString(response.status_code), " Error">>)
    ELSE IF ~ response.body.json THEN SolverError(<<"Expecting value">>)
    ELSE
    LET body == response.body.value
    IN IF Has(body, "response") /\ Has(body.response, "solver_response")
       THEN LET solver_response == body.response.solver_response
                vehicles == Get(solver_response, "vehicle_data", EmptyDict)
            IN IF ConvertRaises(vehicles)
               THEN SolverError(<<ToString(BadLocation(vehicles))>>)
               ELSE [ solution |->
                          [ status |-> Get(solver_response, "status", None),
                            solution_cost |-> Get(solver_response, "solution_cost", None),
                            vehicle_data |-> vehicles,
                            readable_routes |-> ConvertedRoute(vehicles) ],
                      raw_response |-> body ]
       ELSE [error |-> <<"Invalid response format from CuOpt API">>]

----------------------------------------------------------------------------
(* Presentation: which chart files a run writes (visualization_utils.py)   *)

\* int(vehicle_id): defined for the ids that are integers, raises otherwise
IntOf == ("0" :> 0) @@ ("1" :> 1) @@ ("2" :> 2) @@ ("3" :> 3)
IntRaises(id) == id \notin DOMAIN IntOf

Timestamps == {"20260101_120000", "20260101_120001"}

ChartFile(timestamp, kind, n) == [prefix |-> <<"optimization_", timestamp>>, kind |-> kind, n |-> n]
GanttFile(timestamp) == ChartFile(timestamp, "gantt", 0)
NetworkFile(timestamp, n) == ChartFile(timestamp, "network_forklift", n)

\* lines 78-85 of visualization_utils.py: zip(route, type) without the waits
RECURSIVE FilteredRoute(_, _)
FilteredRoute(data, i) ==
    IF i > Len(data.route) \/ i > Len(data.type) THEN <<>>
    ELSE (IF data.type[i] # "w" THEN <<data.route[i]>> ELSE <<>>) \o FilteredRoute(data, i + 1)

\* create_route_networks: the vehicles whose diagram is saved
NetworkRendered(vehicles, id) ==
    LET filtered == FilteredRoute(vehicles[id], 1)
    IN /\ vehicles[id].route # <<>>
       /\ filtered # <<>>
       /\ \A l \in Range(filtered) : l \in 0..8
       /\ ~ IntRaises(id)
create_route_networks(sol, timestamp) ==
    LET vehicles == Get(sol, "vehicle_data", EmptyDict)
    IN { NetworkFile(timestamp, IntOf[id] + 1) : id \in {v \in DOMAIN vehicles : NetworkRendered(vehicles, v)} }

\* create_gantt_chart: sorted(..., key=int) is outside the per-vehicle try
create_gantt_chart(sol, timestamp) ==
    LET vehicles == Get(sol, "vehicle_data", EmptyDict)
    IN IF \E id \in DOMAIN vehicles : IntRaises(id) THEN {} ELSE {GanttFile(timestamp)}

\* line 269
ArrivalTimes(data) == Get(data, "arrival_stamp", Get(data, "arrival_times", <<>>))

\* lines 279-283: the positions of the activities that are drawn, counted from 1
RECURSIVE filtered_indices(_, _)
filtered_indices(data, i) ==
    IF i > Len(Get(data, "type", <<>>)) THEN <<>>
    ELSE (IF data.type[i] # "w" /\ i <= Len(Get(data, "route", <<>>)) /\ i <= Len(ArrivalTimes(data))
          THEN <<i>> ELSE <<>>) \o filtered_indices(data, i + 1)

Max(a, b) == IF a >= b THEN a ELSE b

\* ServiceTime that gives the last drawn activity the default whatever follows it
ServiceTime_last(arrival_times, filtered, i) ==
    IF i + 1 <= Len(filtered)
    THEN Max(1, arrival_times[filtered[i + 1]] - arrival_times[filtered[i]])
    ELSE 2

\* lines 297-309: filtered_service_times[i]
ServiceTime(arrival_times, filtered, i) ==
    LET idx == filtered[i]
    IN IF idx + 1 <= Len(arrival_times)
       THEN LET next_idx == IF i + 1 <= Len(filtered) THEN filtered[i + 1] ELSE idx + 1
            IN Max(1, arrival_times[next_idx] - arrival_times[idx])
       ELSE 2

\* lines 262-373: the bars and the travel connectors drawn for one vehicle
GanttRow(data) ==
    LET arrival_times == ArrivalTimes(data)
        filtered == filtered_indices(data, 1)
        bars == [ i \in 1..Len(filtered) |->
                    [ index |-> filtered[i], start |-> arrival_times[filtered[i]],
                      duration |-> ServiceTime(arrival_times, filtered, i) ] ]
        PrevEnd(i) == bars[i - 1].start + bars[i - 1].duration
    IN IF Get(data, "route", <<>>) = <<>> \/ arrival_times = <<>> \/ Get(data, "type", <<>>) = <<>>
       THEN [bars |-> <<>>, connectors |-> {}]
       ELSE [ bars |-> bars,
              connectors |-> { [bar |-> i, from |-> PrevEnd(i), to |-> bars[i].start] :
                                  i \in {k \in 2..Len(bars) : bars[k].start > PrevEnd(k)} } ]

\* lines 259 and 321: max_time after every bar is drawn
MaxTime(rows) ==
    LET EndsOf(bars) == {bars[i].start + bars[i].duration : i \in 1..Len(bars)}
        ends == {1} \cup UNION {EndsOf(rows[v].bars) : v \in DOMAIN rows}
    IN CHOOSE m \in ends : \A e \in ends : e <= m

\* create_gantt_chart, lines 211-430: the figure that is saved, none when
\* sorted(..., key=int) raises or when line 17 skips the rendering
GanttFigure(sol) ==
    LET vehicles == Get(sol, "vehicle_data", EmptyDict)
        rows == [v \in DOMAIN vehicles |-> GanttRow(vehicles[v])]
    IN IF sol = EmptyDict \/ ~ Has(sol, "vehicle_data") THEN NotSet
       ELSE IF \E id \in DOMAIN vehicles : IntRaises(id) THEN NotSet
       ELSE [rows |-> rows, notice |-> MaxTime(rows) <= 1]

\* visualize_factory_state, lines 9-21
visualize_factory_state(st, timestamp) ==
    IF st.solution # EmptyDict /\ Has(st.solution, "vehicle_data")
    THEN create_route_networks(st.solution, timestamp) \cup create_gantt_chart(st.solution, timestamp)
    ELSE {}

----------------------------------------------------------------------------
(* Orchestrator: cuOptIQAgent_function.py *)

FactoryState(q) ==
    [ query |-> q, query_type |-> "route_optimization", solution |-> EmptyDict,
      errors |-> <<>>, logs |-> <<>>, visualization_timestamp |-> None ]

\* lines 73-104; fs_ok = FALSE when creating the output directory raises
create_visualizations(st, timestamp, fs_ok) ==
    IF fs_ok
    THEN [st EXCEPT !.visualization_timestamp = timestamp,
                    !.logs = Append(@, <<"Visualizations created successfully">>)]
    ELSE [st EXCEPT !.errors = Append(@, <<"Visualization failed: ", "Permission denied">>),
                    !.logs = Append(@, <<"ERROR: ", "Visualization failed: ", "Permission denied">>)]

\* lines 149-153
UpdateState(st, sol) ==
    IF Has(sol, "solution") THEN [st EXCEPT !.solution = sol.solution]
    ELSE IF Has(sol, "error") THEN [st EXCEPT !.errors = Append(@, sol.error)]
    ELSE st

\* line 156
VisualizationRuns(cfg) == cfg.visualization_enabled

\* ResultOf reporting the query_type the Data Modifier returned
ResultOf_typed(st) ==
    [ query_type |-> Get(modified_data, "query_type", st.query_type), solution |-> st.solution,
      errors |-> st.errors, logs |-> st.logs, visualization_timestamp |-> st.visualization_timestamp ]

\* lines 160-166
ResultOf(st) ==
    [ query_type |-> st.query_type, solution |-> st.solution, errors |-> st.errors,
      logs |-> st.logs, visualization_timestamp |-> st.visualization_timestamp ]

\* lines 168-176
FailureResult(st) ==
    LET error_msg == <<"Error in processing workflow: ", "function unavailable">>
    IN [error |-> error_msg, errors |-> <<error_msg>>, solution |-> EmptyDict, logs |-> st.logs]

\* _response_fn, lines 186-224: the response text as its sequence of lines
VehicleIds(m) == SeqOfSet({IntOf[id] : id \in DOMAIN m})
IdOf(n) == CHOOSE id \in DOMAIN IntOf : IntOf[id] = n

FormatRaises(res) ==
    LET sol == Get(res, "solution", EmptyDict)
    IN \/ /\ sol # EmptyDict
          /\ Has(sol, "readable_routes")
          /\ \E v \in DOMAIN sol.readable_routes : IntRaises(v)
       \/ /\ Get(res, "visualization_timestamp", None) # None
          /\ \E v \in DOMAIN Get(sol, "vehicle_data", EmptyDict) : IntRaises(v)

SolutionLines(res) ==
    LET sol == Get(res, "solution", EmptyDict)
    IN IF sol = EmptyDict THEN <<>>
       ELSE <<[line |-> "Total Cost", cost |-> Get(sol, "solution_cost", None)]>> \o
            (IF Has(sol, "readable_routes")
             THEN LET ids == VehicleIds(sol.readable_routes)
                  IN [ k \in 1..Len(ids) |->
                         [line |-> "Forklift", n |-> ids[k] + 1,
                          route |-> sol.readable_routes[IdOf(ids[k])]] ]
             ELSE <<>>)

ErrorLines(res) ==
    LET errors == Get(res, "errors", <<>>)
    IN [k \in 1..Len(errors) |-> [line |-> "Error", error |-> errors[k]]]

ImageLines(res, disk) ==
    LET timestamp == Get(res, "visualization_timestamp", None)
        ids == VehicleIds(Get(Get(res, "solution", EmptyDict), "vehicle_data", EmptyDict))
        Image(f) == IF f \in disk THEN <<[line |-> "Image", file |-> f]>> ELSE <<>>
        RECURSIVE Networks(_)
        Networks(k) == IF k > Len(ids) THEN <<>>
                       ELSE Image(NetworkFile(timestamp, ids[k] + 1)) \o Networks(k + 1)
    IN IF timestamp = None THEN <<>>
       ELSE <<[line |-> "Visualizations"]>> \o Image(GanttFile(timestamp)) \o Networks(1)

_response_fn(res, disk) ==
    IF FormatRaises(res)
    THEN <<[line |-> "Error processing query", error |-> "invalid literal for int()"]>>
    ELSE SolutionLines(res) \o ErrorLines(res) \o ImageLines(res, disk)

----------------------------------------------------------------------------
(* The run of one query *)

NoHttp == [posts |-> 0, gets |-> 0, sleeps |-> 0, tick |-> 0, request |-> NotSet, response |-> NotSet]

Bump(n) == IF n < MaxPolls THEN n + 1 ELSE n

Request(method, url, key) ==
    [method |-> method, url |-> url, authorization |-> <<"Bearer ", key>>]

Init ==
    /\ query \in Queries
    /\ config \in [cuopt_api_key : {"", "nvapi-config"}, visualization_enabled : BOOLEAN]
    /\ environ \in {"", "nvapi-env"}
    /\ pc = "analyze"
    /\ state = FactoryState(query)
    /\ llm_response = NotSet
    /\ analyze_result = NotSet
    /\ modified_data = NotSet
    /\ cuopt_input = NotSet
    /\ solution = NotSet
    /\ transport_data = NotSet
    /\ calls = <<>>
    /\ http = NoHttp
    /\ result = NotSet
    /\ files = {}
    /\ response_text = NotSet
    /\ builds = <<>>
    /\ logger = <<>>
    /\ chart = NotSet
    /\ runs = <<>>
    /\ heap = <<>>
    /\ filesystem = NotSet

Call(stage, input) == [stage |-> stage, input |-> [arg |-> input]]
\* one call of _prepare_fn: what it was given and what it returned
BuildOf(input) == [input |-> [arg |-> input], output |-> _prepare_fn(input)]

\* the argument each stage function is called with (lines 125, 132, 139, 146)
AnalyzeInput == query
ModifyInput == analyze_result
\* PrepareInput skipping the Data Modifier's output
PrepareInput_analysis == analyze_result
PrepareInput == modified_data
SolveInput == cuopt_input

\* lines 121-126
Analyze ==
    /\ pc = "analyze"
    /\ \E llm \in LLMOutcomes :
          /\ llm_response' = llm
          /\ analyze_result' = _analyze_fn(AnalyzeInput, llm)
    /\ calls' = Append(calls, Call("analyze", AnalyzeInput))
    /\ pc' = "modify"
    /\ UNCHANGED <<builds, logger, chart, runs, heap, filesystem>>
    /\ UNCHANGED <<query, config, environ, state, modified_data, cuopt_input, solution,
                   transport_data, http, result, files, response_text>>

\* lines 128-133
Modify ==
    /\ pc = "modify"
    /\ \E csv \in CsvFiles :
          /\ modified_data' = _modify_data_fn(ModifyInput, csv)
          /\ transport_data' = IF LoadRaises(csv) THEN NotSet
                               ELSE [rows |-> LoadTransportData(csv)]
          /\ logger' = IF LoadRaises(csv) THEN <<[level |-> "ERROR", message |-> "Data modification failed"]>>
                       ELSE ModificationLog(ModifyInput, LoadTransportData(csv))
    /\ calls' = Append(calls, Call("modify", ModifyInput))
    /\ pc' = "prepare"
    /\ UNCHANGED <<builds, chart, runs, heap, filesystem>>
    /\ UNCHANGED <<query, config, environ, state, llm_response, analyze_result, cuopt_input, solution,
                   http, result, files, response_text>>

\* lines 135-140
Prepare ==
    /\ pc = "prepare"
    /\ cuopt_input' = _prepare_fn(PrepareInput)
    /\ builds' = Append(builds, BuildOf(PrepareInput))
    /\ calls' = Append(calls, Call("prepare", PrepareInput))
    /\ pc' = "solve"
    /\ UNCHANGED <<logger, chart, runs, heap, filesystem>>
    /\ UNCHANGED <<query, config, environ, state, llm_response, analyze_result, modified_data, solution,
                   transport_data, http, result, files, response_text>>

\* _solve_fn returns sol to process_query (line 146)
SolveReturns(sol) ==
    /\ solution' = sol
    /\ pc' = "update"

\* lines 142-146 and _solve_fn lines 56-93: up to the POST
SolveStart ==
    /\ pc = "solve"
    /\ calls' = Append(calls, Call("solve", SolveInput))
    /\ LET api_key == ApiKey(config, environ)
           input == ExtractInput(SolveInput)
       IN IF api_key = ""
          THEN /\ SolveReturns(SolverError(<<"No API key provided for NVIDIA CuOpt">>))
               /\ http' = http
          ELSE IF Has(input, "error")
          THEN /\ SolveReturns([error |-> input.error])
               /\ http' = http
          ELSE \E out \in HttpOutcomes :
                  LET sent == [http EXCEPT !.posts = @ + 1, !.tick = 1 - @,
                                           !.request = Request("POST", CUOPT_INVOKE_URL, api_key)]
                  IN IF out.raises
                     THEN /\ SolveReturns(SolverError(<<"Connection refused">>))
                          /\ http' = sent
                     ELSE /\ http' = [sent EXCEPT !.response = out.response]
                          /\ pc' = "poll"
                          /\ solution' = solution
    /\ UNCHANGED <<builds, logger, chart, runs, heap, filesystem>>
    /\ UNCHANGED <<query, config, environ, state, llm_response, analyze_result, modified_data, cuopt_input,
                   transport_data, result, files, response_text>>

\* _solve_fn lines 96-101: one iteration of the polling loop
SolvePoll ==
    /\ pc = "poll"
    /\ Accepted(http.response)
    /\ IF ~ Has(http.response.headers, "NVCF-REQID")
       THEN /\ SolveReturns(SolverError(<<"can only concatenate str (not \"NoneType\") to str">>))
            /\ http' = http
       ELSE \E out \in HttpOutcomes :
               LET sent == [http EXCEPT !.gets = Bump(@), !.tick = 1 - @,
                                        !.request = Request("GET", PollUrl(http.response),
                                                            ApiKey(config, environ))]
               IN IF out.raises
                  THEN /\ SolveReturns(SolverError(<<"Connection refused">>))
                       /\ http' = sent
                  ELSE /\ http' = [sent EXCEPT !.response = out.response, !.sleeps = Bump(@)]
                       /\ pc' = "poll"
                       /\ solution' = solution
    /\ UNCHANGED <<builds, logger, chart, runs, heap, filesystem>>
    /\ UNCHANGED <<query, config, environ, state, llm_response, analyze_result, modified_data, cuopt_input,
                   transport_data, calls, result, files, response_text>>

\* _solve_fn lines 103-158: the terminal response
SolveFinish ==
    /\ pc = "poll"
    /\ ~ Accepted(http.response)
    /\ SolveReturns(ProcessResponse(http.response))
    /\ UNCHANGED <<builds, logger, chart, runs, heap, filesystem>>
    /\ UNCHANGED <<query, config, environ, state, llm_response, analyze_result, modified_data, cuopt_input,
                   transport_data, calls, http, result, files, response_text>>

\* lines 149-166: record the outcome, create the visualizations, return
Finish ==
    /\ pc = "update"
    /\ LET updated == UpdateState(state, solution)
       IN IF VisualizationRuns(config)
          THEN \E timestamp \in Timestamps, fs_ok \in BOOLEAN :
                  /\ state' = create_visualizations(updated, timestamp, fs_ok)
                  /\ files' = IF fs_ok THEN files \cup visualize_factory_state(updated, timestamp)
                              ELSE files
                  /\ chart' = IF fs_ok THEN GanttFigure(updated.solution) ELSE chart
          ELSE /\ state' = updated
               /\ files' = files
               /\ chart' = chart
    /\ result' = ResultOf(state')
    /\ pc' = "respond"
    /\ UNCHANGED <<builds, logger, runs, heap, filesystem>>
    /\ UNCHANGED <<query, config, environ, llm_response, analyze_result, modified_data, cuopt_input,
                   solution, transport_data, calls, http, response_text>>

\* lines 168-176: loading a stage function raised
StageFails ==
    /\ pc \in {"analyze", "modify", "prepare", "solve"}
    /\ result' = FailureResult(state)
    /\ pc' = "respond"
    /\ UNCHANGED <<builds, logger, chart, runs, heap, filesystem>>
    /\ UNCHANGED <<query, config, environ, state, llm_response, analyze_result, modified_data, cuopt_input,
                   solution, transport_data, calls, http, files, response_text>>

\* _response_fn lines 186-229
Respond ==
    /\ pc = "respond"
    /\ response_text' = [text |-> _response_fn(result, files)]
    /\ pc' = "done"
    /\ UNCHANGED <<builds, logger, chart, runs, heap, filesystem>>
    /\ UNCHANGED <<query, config, environ, state, llm_response, analyze_result, modified_data, cuopt_input,
                   solution, transport_data, calls, http, result, files>>

Next ==
    \/ Analyze
    \/ Modify
    \/ Prepare
    \/ SolveStart
    \/ SolvePoll
    \/ SolveFinish
    \/ Finish
    \/ StageFails
    \/ Respond

Spec == Init /\ [][Next]_vars

\* the program keeps executing the run's next step; the remote is not constrained
LiveInit == Init /\ query = <<"optimize", " ", "routes">>
LiveSpec == LiveInit /\ [][Next]_vars /\ WF_vars(Next)

----------------------------------------------------------------------------
(* The Problem Builder called again and again, as it is for one query after *)
(* another: _prepare_fn with what the Data Modifier may deliver            *)

BuilderOrderSets == {
    DefaultTransportData,
    SubSeq(DefaultTransportData, 2, 9),
    <<>>,
    <<Order(2, 6, 3, 0, 10, 2, 0, 55, 2), Order(1, 7, NaN, 0, 20, 2, 0, 55, 2)>> }
BuilderFleetChanges == {
    NoFleetChanges,
    LLMObject("fleet").fleet_changes,
    LLMObject("fleetNoSize").fleet_changes }
BuilderInputs ==
    { [transport_data |-> rows, fleet_changes |-> fleet, query_type |-> qt] :
          rows \in BuilderOrderSets, fleet \in BuilderFleetChanges,
          qt \in {"route_optimization", "remove_order"} }
    \cup {ModifyError("not found in axis")}

BuilderInit ==
    /\ Init
    /\ query = <<"optimize", " ", "routes">>
    /\ config = [cuopt_api_key |-> "", visualization_enabled |-> FALSE]
    /\ environ = ""

\* line 139 of process_query, for the next query's modified data
Build ==
    /\ Len(builds) < MaxBuilds
    /\ \E input \in BuilderInputs :
          /\ modified_data' = input
          /\ cuopt_input' = _prepare_fn(input)
          /\ builds' = Append(builds, BuildOf(input))
    /\ UNCHANGED <<logger, chart, runs, heap, filesystem>>
    /\ UNCHANGED <<query, config, environ, pc, state, llm_response, analyze_result, solution,
                   transport_data, calls, http, result, files, response_text>>

BuilderNext == Build

BuilderSpec == BuilderInit /\ [][BuilderNext]_vars

----------------------------------------------------------------------------
(* The presentation of a solved query: lines 149-166 and _response_fn for   *)
(* the schedules the Solver Gateway may deliver                            *)

SeqsUpTo(S, n) == UNION {[1..k -> S] : k \in 0..n}
ChartVehicles ==
    { Vehicle(route, type, stamps) :
          route \in {<<0, 1>>, [i \in 1..MaxSteps |-> i - 1]},
          type \in SeqsUpTo({"Pickup", "w"}, MaxSteps),
          stamps \in SeqsUpTo({0, 1, 3}, MaxSteps) }
ChartSolutions ==
    { [status |-> "0", solution_cost |-> "1", vehicle_data |-> ("0" :> v)] : v \in ChartVehicles }
    \cup {sr \in SolverResponses : Has(sr, "vehicle_data") /\ ~ ConvertRaises(sr.vehicle_data)}

ChartInit ==
    /\ query = <<"optimize", " ", "routes">>
    /\ config = [cuopt_api_key |-> "nvapi-config", visualization_enabled |-> TRUE]
    /\ environ = ""
    /\ pc = "update"
    /\ state = FactoryState(query)
    /\ llm_response = NotSet
    /\ analyze_result = NotSet
    /\ modified_data = NotSet
    /\ cuopt_input = NotSet
    /\ solution \in {ProcessResponse(Response(200, EmptyDict, GoodBody(sr))) : sr \in ChartSolutions}
    /\ transport_data = NotSet
    /\ calls = <<>>
    /\ http = NoHttp
    /\ result = NotSet
    /\ files = {}
    /\ response_text = NotSet
    /\ builds = <<>>
    /\ logger = <<>>
    /\ chart = NotSet
    /\ runs = <<>>
    /\ heap = <<>>
    /\ filesystem = NotSet

ChartNext ==
    \/ Finish
    \/ Respond

ChartSpec == ChartInit /\ [][ChartNext]_vars

----------------------------------------------------------------------------
(* Queries served side by side by one process: each call of _response_fn   *)
(* runs process_query as a coroutine that may be suspended at every await  *)
(* (between the stages); the runs share the class FactoryState, the order  *)
(* file and the output directory                                          *)

SessionRuns == {1, 2}

\* a list object: the default of a field of the class (owner 0, lines 38-39)
\* or the list of the instance a run created
Ref(owner, field) == [owner |-> owner, field |-> field]
Refs == {Ref(owner, field) : owner \in {0} \cup SessionRuns, field \in {"errors", "logs"}}

\* NewList handing every instance the class's own default list
NewList_shared(r, field) == Ref(0, field)

\* line 112: pydantic copies the default of a field into each new instance
NewList(r, field) == Ref(r, field)

\* the FactoryState of a run with its lists read from / written to the heap
Deref(st, h) == [st EXCEPT !.errors = h[st.errors], !.logs = h[st.logs]]
Store(h, refs, st) == [h EXCEPT ![refs.errors] = st.errors, ![refs.logs] = st.logs]

\* savefig: the files a rendering writes replace the files of the same name
Write(charts, written, r) ==
    {e \in charts : e.file \notin written} \cup {[file |-> f, writer |-> r] : f \in written}
\* lines 211-222 of _response_fn: the image data read from the files it embeds
Embedded(text, charts) ==
    {e \in charts : \E k \in 1..Len(text) : text[k].line = "Image" /\ text[k].file = e.file}

NewRun ==
    [ pc |-> "idle", state |-> NotSet, analyze_result |-> NotSet, modified_data |-> NotSet,
      cuopt_input |-> NotSet, solution |-> NotSet, result |-> NotSet, response_text |-> NotSet,
      embedded |-> {} ]

SessionLLM ==
    { [raises |-> TRUE],
      [raises |-> FALSE, content |-> <<"{", "remove0", "}">>],
      [raises |-> FALSE, content |-> <<"{", "badChanges", "}">>] }
SessionCsvFiles == {csv \in CsvFiles : ~ csv.found \/ (csv.readable /\ csv.rows # <<>>)}
\* what _solve_fn may return for a solver problem
SessionSolutions(input) ==
    IF Has(input, "error") THEN {[error |-> input.error]}
    ELSE { SolverError(<<"Connection refused">>) } \cup
         { ProcessResponse(Response(200, EmptyDict, GoodBody(sr))) :
               sr \in {s \in SolverResponses : Get(s, "status", None) = "0" /\ Has(s, "vehicle_data")
                                               /\ ~ ConvertRaises(s.vehicle_data)} }

SessionInit ==
    /\ query = <<"optimize", " ", "routes">>
    /\ config = [cuopt_api_key |-> "nvapi-config", visualization_enabled |-> TRUE]
    /\ environ = ""
    /\ pc = "done"
    /\ state = NotSet
    /\ llm_response = NotSet
    /\ analyze_result = NotSet
    /\ modified_data = NotSet
    /\ cuopt_input = NotSet
    /\ solution = NotSet
    /\ transport_data = NotSet
    /\ calls = <<>>
    /\ http = NoHttp
    /\ result = NotSet
    /\ files = {}
    /\ response_text = NotSet
    /\ builds = <<>>
    /\ logger = <<>>
    /\ chart = NotSet
    /\ runs = [r \in SessionRuns |-> NewRun]
    /\ heap = [ref \in Refs |-> <<>>]
    /\ filesystem \in {[charts |-> {}, csv |-> csv] : csv \in SessionCsvFiles}

SessionFrame ==
    UNCHANGED <<query, config, environ, pc, state, llm_response, analyze_result, modified_data,
                cuopt_input, solution, transport_data, calls, http, result, files, response_text,
                builds, logger, chart>>

\* lines 107-119: a query arrives and gets its FactoryState
SessionStart(r) ==
    /\ runs[r].pc = "idle"
    /\ LET errors == NewList(r, "errors")
           logs == NewList(r, "logs")
       IN /\ runs' = [runs EXCEPT ![r].pc = "analyze",
                                  ![r].state = [FactoryState(query) EXCEPT !.errors = errors,
                                                                           !.logs = logs]]
          /\ heap' = [heap EXCEPT ![errors] = heap[Ref(0, "errors")], ![logs] = heap[Ref(0, "logs")]]
    /\ UNCHANGED filesystem
    /\ SessionFrame

\* lines 121-126
SessionAnalyze(r) ==
    /\ runs[r].pc = "analyze"
    /\ \E llm \in SessionLLM :
          runs' = [runs EXCEPT ![r].pc = "modify",
                               ![r].analyze_result = _analyze_fn(runs[r].state.query, llm)]
    /\ UNCHANGED <<heap, filesystem>>
    /\ SessionFrame

\* lines 128-133: the Data Modifier reads the order file and writes nothing
SessionModify(r) ==
    /\ runs[r].pc = "modify"
    /\ runs' = [runs EXCEPT ![r].pc = "prepare",
                            ![r].modified_data = _modify_data_fn(runs[r].analyze_result, filesystem.csv)]
    /\ UNCHANGED <<heap, filesystem>>
    /\ SessionFrame

\* lines 135-140
SessionPrepare(r) ==
    /\ runs[r].pc = "prepare"
    /\ runs' = [runs EXCEPT ![r].pc = "solve",
                            ![r].cuopt_input = _prepare_fn(runs[r].modified_data)]
    /\ UNCHANGED <<heap, filesystem>>
    /\ SessionFrame

\* lines 142-146
SessionSolve(r) ==
    /\ runs[r].pc = "solve"
    /\ \E sol \in SessionSolutions(runs[r].cuopt_input) :
          runs' = [runs EXCEPT ![r].pc = "update", ![r].solution = sol]
    /\ UNCHANGED <<heap, filesystem>>
    /\ SessionFrame

\* lines 149-166 and _response_fn lines 186-224: nothing is awaited in between
SessionFinish(r) ==
    /\ runs[r].pc = "update"
    /\ \E timestamp \in Timestamps, fs_ok \in BOOLEAN :
          LET refs == runs[r].state
              updated == UpdateState(Deref(refs, heap), runs[r].solution)
              st == create_visualizations(updated, timestamp, fs_ok)
              written == IF fs_ok THEN visualize_factory_state(updated, timestamp) ELSE {}
              charts == Write(filesystem.charts, written, r)
              res == ResultOf(st)
              text == _response_fn(res, {e.file : e \in charts})
          IN /\ heap' = Store(heap, refs, st)
             /\ filesystem' = [filesystem EXCEPT !.charts = charts]
             /\ runs' = [runs EXCEPT ![r].pc = "done",
                                     ![r].state = [st EXCEPT !.errors = refs.errors, !.logs = refs.logs],
                                     ![r].result = res,
                                     ![r].response_text = [text |-> text],
                                     ![r].embedded = Embedded(text, charts)]
    /\ SessionFrame

SessionNext ==
    \E r \in SessionRuns :
        \/ SessionStart(r)
        \/ SessionAnalyze(r)
        \/ SessionModify(r)
        \/ SessionPrepare(r)
        \/ SessionSolve(r)
        \/ SessionFinish(r)

SessionSpec == SessionInit /\ [][SessionNext]_vars

----------------------------------------------------------------------------
(* The Data Modifier on the ChangeRequests the analyzer may hand over: the *)
(* language model's object is passed on as it is (lines 128-133)           *)

ModifierNewOrders ==
    { <<>>,
      <<Order(4, 6, 2, 0, 15, 2, 0, 55, 2)>>,
      <<Order(4, 6, 2, 0, 15, 2, 0, 55, 2), [pickup_location |-> 3, delivery_location |-> 7]>> }
ModifierRequests ==
    { FullObject("route_optimization",
                 [ modify_service_times |-> [needed |-> service, new_value |-> JsonScalar("5")],
                   modify_time_windows |-> [needed |-> window],
                   remove_orders |-> [needed |-> remove, order_indices |-> indices] ],
                 NoFleetChanges, orders, TRUE) :
          service \in BOOLEAN, window \in BOOLEAN, remove \in BOOLEAN,
          indices \in SeqsUpTo(0..3, MaxIndices), orders \in ModifierNewOrders }

ModifierInit ==
    /\ query = <<"optimize", " ", "routes">>
    /\ config = [cuopt_api_key |-> "nvapi-config", visualization_enabled |-> TRUE]
    /\ environ = ""
    /\ pc = "modify"
    /\ state = FactoryState(query)
    /\ llm_response = NotSet
    /\ analyze_result \in ModifierRequests
    /\ modified_data = NotSet
    /\ cuopt_input = NotSet
    /\ solution = NotSet
    /\ transport_data = NotSet
    /\ calls = <<Call("analyze", AnalyzeInput)>>
    /\ http = NoHttp
    /\ result = NotSet
    /\ files = {}
    /\ response_text = NotSet
    /\ builds = <<>>
    /\ logger = <<>>
    /\ chart = NotSet
    /\ runs = <<>>
    /\ heap = <<>>
    /\ filesystem = NotSet

ModifierNext == Modify

ModifierSpec == ModifierInit /\ [][ModifierNext]_vars

----------------------------------------------------------------------------
(* Properties *)

StageErrored(out) == out # NotSet /\ Has(out, "error")
Returned == result # NotSet
ReturnedNormally == Returned /\ ~ Has(result, "error")
VisualizationInvoked == state.logs # <<>>
SolutionObtained == state.solution # EmptyDict

StageOrder == <<"analyze", "modify", "prepare", "solve">>

\* C1: the stages are invoked in the order analyze, modify, prepare, solve,
\* each at most once, each only after the previous one has returned and with
\* exactly the previous stage's return value as its input; a run that returns
\* normally has invoked all four.
C1_StagesInOrder ==
    /\ Len(calls) <= 4
    /\ \A i \in 1..Len(calls) : calls[i].stage = StageOrder[i]
    /\ Len(calls) >= 1 => calls[1].input.arg = query
    /\ Len(calls) >= 2 => analyze_result # NotSet /\ calls[2].input.arg = analyze_result
    /\ Len(calls) >= 3 => modified_data # NotSet /\ calls[3].input.arg = modified_data
    /\ Len(calls) >= 4 => cuopt_input # NotSet /\ calls[4].input.arg = cuopt_input
    /\ ReturnedNormally => Len(calls) = 4

C1_Witness ==
    /\ pc = "done"
    /\ Len(calls) = 4
    /\ Has(solution, "solution")
    /\ Has(cuopt_input, "task_data")

\* C2: once a stage has returned an {error} marker, no later stage and no
\* visualization is invoked, and the run returns the accumulated error list
\* with that error in it.
C2_ShortCircuit ==
    /\ StageErrored(modified_data) => Len(calls) <= 2
    /\ StageErrored(cuopt_input) => Len(calls) <= 3
    /\ (StageErrored(modified_data) \/ StageErrored(cuopt_input) \/ StageErrored(solution))
          => ~ VisualizationInvoked
    /\ (Returned /\ StageErrored(modified_data)) => modified_data.error \in Range(result.errors)

\* C3: the final errors list contains the error message of every stage that
\* returned an {error} marker; in particular the Problem Builder's "missing
\* or empty" message, with or without an API key.
C3_ErrorsRecorded ==
    ReturnedNormally =>
        /\ StageErrored(modified_data) => modified_data.error \in Range(result.errors)
        /\ StageErrored(cuopt_input) => cuopt_input.error \in Range(result.errors)
        /\ StageErrored(solution) => solution.error \in Range(result.errors)

\* C4: the visualization step has run (timestamp set, log appended) only if
\* visualization is enabled and a solution was obtained.
C4_VisualizationGuard ==
    (\/ state.visualization_timestamp # None
     \/ <<"Visualizations created successfully">> \in Range(state.logs))
        => (config.visualization_enabled /\ SolutionObtained)

\* C5: the response is never blank; when a solution was obtained it shows the
\* total cost and one route line per vehicle, numbered vehicle id + 1; and it
\* lists every accumulated error.
C5_ResponseRenders ==
    pc = "done" =>
        LET text == response_text.text
            sol == result.solution
        IN /\ text # <<>>
           /\ sol # EmptyDict =>
                 /\ \E k \in 1..Len(text) :
                        text[k].line = "Total Cost" /\ text[k].cost = sol.solution_cost
                 /\ \A v \in DOMAIN sol.readable_routes :
                        \E k \in 1..Len(text) :
                            /\ text[k].line = "Forklift"
                            /\ text[k].route = sol.readable_routes[v]
                            /\ v \in DOMAIN IntOf
                            /\ text[k].n = IntOf[v] + 1
                 /\ Cardinality({k \in 1..Len(text) : text[k].line = "Forklift"})
                        = Cardinality(DOMAIN sol.readable_routes)
           /\ \A e \in Range(result.errors) :
                  \E k \in 1..Len(text) : text[k].line = "Error" /\ text[k].error = e

\* a request went out in this step
RequestSent == http'.tick # http.tick
Responded == http.response # NotSet
ValidBody(response) ==
    /\ response.body.json
    /\ Has(response.body.value, "response")
    /\ Has(response.body.value.response, "solver_response")
RawSolverResponse(response) == response.body.value.response.solver_response
Renderable(sr) ==
    \A v \in DOMAIN Get(sr, "vehicle_data", EmptyDict) :
        \A i \in 1..Len(sr.vehicle_data[v].route) :
            (i <= Len(sr.vehicle_data[v].type) /\ sr.vehicle_data[v].type[i] # "w")
                => sr.vehicle_data[v].route[i] \in 0..8
SolveSubmits == ApiKey(config, environ) # "" /\ ~ Has(ExtractInput(cuopt_input), "error")

\* C6: a solve that submits its problem sends exactly one POST, to the solve
\* endpoint; a GET is sent only when the latest response had status 202, to
\* the status endpoint at that response's NVCF-REQID; every completed poll is
\* followed by the wait before the loop continues; nothing is sent after a
\* non-202 response; and 202 followed by 200 with a valid solver_response
\* gives a SolutionRecord with the raw status.
C6_PollingProtocol ==
    /\ [](/\ http.posts <= 1
          /\ (pc \in {"poll", "update", "respond", "done"} /\ Len(calls) = 4 /\ SolveSubmits)
                 => http.posts = 1
          /\ pc = "poll" => http.sleeps = http.gets
          /\ (/\ pc \in {"update", "respond", "done"}
              /\ http.gets >= 1
              /\ Responded
              /\ http.request.method = "GET"
              /\ http.response.status_code = 200
              /\ ValidBody(http.response)
              /\ Renderable(RawSolverResponse(http.response)))
                 => /\ Has(solution, "solution")
                    /\ solution.solution.status
                           = Get(RawSolverResponse(http.response), "status", None))
    /\ [][RequestSent =>
            IF http'.request.method = "POST"
            THEN /\ http.posts = 0
                 /\ ~ Responded
                 /\ http'.request.url = CUOPT_INVOKE_URL
            ELSE /\ http'.request.method = "GET"
                 /\ Responded
                 /\ http.response.status_code = 202
                 /\ Has(http.response.headers, "NVCF-REQID")
                 /\ http'.request.url = CUOPT_STATUS_URL \o <<http.response.headers["NVCF-REQID"]>>]_vars
    /\ [][(Responded /\ http.response.status_code # 202) => ~ RequestSent]_vars

C6_Witness ==
    /\ pc = "update"
    /\ http.posts = 1
    /\ http.gets = 1
    /\ http.sleeps = 1
    /\ http.request.url = CUOPT_STATUS_URL \o <<"req-2">>
    /\ http.response.status_code = 200
    /\ Has(solution, "solution")
    /\ solution.solution.status = "0"

\* one more poll that is answered 202 again
SolvePollAgain == SolvePoll /\ pc' = "poll" /\ http'.response.status_code = 202
Polling == pc = "poll" /\ http.response.status_code = 202

\* C7: every run completes unless the remote answers 202 for ever: a run
\* either reaches its end or stays in the polling loop on 202 responses; and
\* whatever the number of polls so far, a 202 response carrying a request id
\* is followed by another poll, which may again be answered 202.
C7_CompletesUnlessPollingForever ==
    /\ (<>(pc = "done") \/ <>[]Polling)
    /\ []((Polling /\ Has(http.response.headers, "NVCF-REQID")) => ENABLED SolvePollAgain)

C7_Witness ==
    /\ pc = "done"
    /\ http.gets = MaxPolls
    /\ http.response.status_code # 202
    /\ Has(solution, "solution")

\* C8: solve returns exactly one of 'solution' and 'error'; 'solution' only
\* after a terminal response with a 2xx status whose body contains
\* response.solver_response; after an error nothing more is sent.
C8_SolutionOnlyFrom2xx ==
    solution # NotSet =>
        /\ Has(solution, "solution") # Has(solution, "error")
        /\ Has(solution, "solution") =>
              /\ Responded
              /\ http.response.status_code \in 200..299
              /\ ValidBody(http.response)

NoApiKey == config.cuopt_api_key = "" /\ environ = ""

\* C9: without an API key (neither configured nor in the environment) solve
\* returns the "No API key provided" error and no request is ever sent,
\* whatever its input is.
C9_NoKeyNoRequest ==
    NoApiKey =>
        /\ http = NoHttp
        /\ pc # "poll"
        /\ Len(calls) = 4 =>
              solution = [error |-> <<"Error in CuOpt solver: ",
                                      "No API key provided for NVIDIA CuOpt">>]

C9_Witness ==
    /\ NoApiKey
    /\ pc = "update"
    /\ Len(calls) = 4
    /\ Has(cuopt_input, "task_data")
    /\ Has(solution, "error")

\* the JSON object a model output carries: the whole text, or the text from
\* its first "{" to its last "}"
IsObjectText(t) ==
    \/ t = <<"{", "}">>
    \/ Len(t) = 3 /\ t[1] = "{" /\ t[3] = "}" /\ t[2] \in Payloads
ObjectOfText(t) == IF Len(t) = 2 THEN EmptyDict ELSE LLMObject(t[2])
IsJsonText(t) == IsObjectText(t) \/ t = <<"[", "]">> \/ t = <<"7">>
Braces(t) == {i \in 1..Len(t) : t[i] = "{"} \X {j \in 1..Len(t) : t[j] = "}"}
BraceSpan(t) ==
    LET span == CHOOSE ij \in Braces(t) :
                    \A kl \in Braces(t) : ij[1] <= kl[1] /\ ij[2] >= kl[2]
    IN IF Braces(t) = {} THEN <<>> ELSE SubSeq(t, span[1], span[2])
CarriedText(t) == IF IsJsonText(t) THEN t ELSE BraceSpan(t)
UsableObject(llm) ==
    /\ ~ llm.raises
    /\ IsObjectText(CarriedText(llm.content))
    /\ LET o == ObjectOfText(CarriedText(llm.content))
       IN Has(o, "required_analyses") => IsDict(o.required_analyses)

RequiredAreas == {"query_type", "transport_data_changes", "fleet_changes", "required_analyses"}
WellFormed(cr) ==
    /\ IsDict(cr)
    /\ RequiredAreas \subseteq DOMAIN cr
    /\ IsDict(cr.transport_data_changes)
    /\ {"modify_service_times", "modify_time_windows", "remove_orders"}
           \subseteq DOMAIN cr.transport_data_changes
    /\ \A e \in DOMAIN cr.transport_data_changes :
           Has(cr.transport_data_changes[e], "needed")
    /\ IsDict(cr.fleet_changes)
    /\ {"modify_capacity", "modify_fleet_size"} \subseteq DOMAIN cr.fleet_changes
    /\ \A e \in DOMAIN cr.fleet_changes : Has(cr.fleet_changes[e], "needed")
    /\ IsDict(cr.required_analyses)
    /\ Has(cr.required_analyses, "visualization_needed")
LacksFields(llm) ==
    /\ UsableObject(llm)
    /\ ~ WellFormed(ObjectOfText(CarriedText(llm.content)))

\* C10 as claimed: interpret returns a well-formed ChangeRequest for every
\* outcome of the model call, and the default ChangeRequest whenever the
\* model output is unusable or lacks fields.
C10_WellFormedOrDefault ==
    analyze_result # NotSet =>
        /\ WellFormed(analyze_result)
        /\ (~ UsableObject(llm_response) \/ LacksFields(llm_response))
              => analyze_result = create_default_analysis(query)

\* C10 as amended: interpret always returns an object whose required_analyses
\* is an object; it returns the (well-formed) default ChangeRequest when the
\* call raises, when the output carries no JSON object, or when the object's
\* required_analyses is not an object; otherwise it returns the parsed object
\* with only required_analyses changed, a missing field staying missing.
C10_NeverFailsOutward ==
    analyze_result # NotSet =>
        /\ IsDict(analyze_result)
        /\ Has(analyze_result, "required_analyses")
        /\ IsDict(analyze_result.required_analyses)
        /\ IF UsableObject(llm_response)
           THEN LET o == ObjectOfText(CarriedText(llm_response.content))
                IN /\ DOMAIN analyze_result = (DOMAIN o) \cup {"required_analyses"}
                   /\ \A k \in (DOMAIN o) \ {"required_analyses"} : analyze_result[k] = o[k]
           ELSE /\ analyze_result = create_default_analysis(query)
                /\ WellFormed(analyze_result)

C10_Witness ==
    /\ analyze_result # NotSet
    /\ ~ llm_response.raises
    /\ llm_response.content = <<"{", "onlyType", "}">>
    /\ DOMAIN analyze_result = {"query_type", "required_analyses"}
    /\ analyze_result.required_analyses = [visualization_needed |-> TRUE]

----------------------------------------------------------------------------
(* Query Interpreter: the forced visualization flag *)

\* the model output says no visualization is needed, or says nothing about it
SaysNoVisualization(llm) ==
    /\ UsableObject(llm)
    /\ LET o == ObjectOfText(CarriedText(llm.content))
       IN Get(Get(o, "required_analyses", EmptyDict), "visualization_needed", FALSE) = FALSE

\* C11: whatever the query and whatever the language model did (raised,
\* answered text that is not JSON, left required_analyses out, or set
\* visualization_needed to false), the ChangeRequest returned by the Query
\* Interpreter has required_analyses.visualization_needed = true.
C11_VisualizationForced ==
    analyze_result # NotSet =>
        /\ Has(analyze_result, "required_analyses")
        /\ Has(analyze_result.required_analyses, "visualization_needed")
        /\ analyze_result.required_analyses.visualization_needed = TRUE

C11_Witness ==
    /\ analyze_result # NotSet
    /\ ~ llm_response.raises
    /\ llm_response.content = <<"{", "noop", "}">>
    /\ SaysNoVisualization(llm_response)
    /\ LLMObject("noop").required_analyses.visualization_needed = FALSE
    /\ analyze_result.required_analyses.visualization_needed = TRUE

----------------------------------------------------------------------------
(* Query Interpreter: the keyword fallback *)

\* the integer a query states right before a noun ("1" "2" " " "forklifts"
\* states 12, "two" " " "forklifts" states 2) or right after a verb; 0 when
\* the query states none
DigitValue == ("0" :> 0) @@ ("1" :> 1) @@ ("2" :> 2) @@ ("3" :> 3) @@ ("4" :> 4) @@
              ("5" :> 5) @@ ("6" :> 6) @@ ("7" :> 7) @@ ("8" :> 8) @@ ("9" :> 9)
WordValue == ("one" :> 1) @@ ("two" :> 2) @@ ("three" :> 3) @@ ("four" :> 4)
RECURSIVE NumberEndingAt(_, _)
NumberEndingAt(text, j) ==
    IF j >= 1 /\ text[j] \in DOMAIN DigitValue
    THEN 10 * NumberEndingAt(text, j - 1) + DigitValue[text[j]]
    ELSE 0
RECURSIVE NumberStartingAt(_, _, _)
NumberStartingAt(text, j, acc) ==
    IF j <= Len(text) /\ text[j] \in DOMAIN DigitValue
    THEN NumberStartingAt(text, j + 1, 10 * acc + DigitValue[text[j]])
    ELSE acc
StatedBefore(text, noun) ==
    IF \E i \in 3..Len(text) : text[i] = noun /\ text[i - 1] = " "
    THEN LET i == CHOOSE k \in 3..Len(text) : text[k] = noun /\ text[k - 1] = " "
         IN IF text[i - 2] \in DOMAIN WordValue THEN WordValue[text[i - 2]]
            ELSE NumberEndingAt(text, i - 2)
    ELSE 0
StatedAfter(text, verb) ==
    IF \E i \in 1..(Len(text) - 2) : text[i] = verb /\ text[i + 1] = " "
    THEN LET i == CHOOSE k \in 1..(Len(text) - 2) : text[k] = verb /\ text[k + 1] = " "
         IN IF text[i + 2] \in DOMAIN WordValue THEN WordValue[text[i + 2]]
            ELSE NumberStartingAt(text, i + 2, 0)
    ELSE 0
StatedFleetSize(q) == StatedBefore(LowerText(q), "forklifts")
StatedCapacity(q) ==
    IF StatedBefore(LowerText(q), "items") # 0 THEN StatedBefore(LowerText(q), "items")
    ELSE StatedAfter(LowerText(q), "carry")

KeywordFallback == analyze_result # NotSet /\ llm_response.raises

\* C12: on the keyword fallback path (the language model is unavailable), a
\* fleet size or capacity change that is flagged needed carries the integer
\* the query literally states for the number of forklifts / the items per
\* forklift; the query "use 2 forklifts" yields modify_fleet_size =
\* {needed: true, new_size: 2} with every other edit flag not needed.
C12_FallbackLiteralIntegers ==
    KeywordFallback =>
        LET fleet == analyze_result.fleet_changes
            edits == analyze_result.transport_data_changes
        IN /\ fleet.modify_fleet_size.needed =>
                  fleet.modify_fleet_size.new_size = StatedFleetSize(query)
           /\ fleet.modify_capacity.needed =>
                  fleet.modify_capacity.new_capacity = StatedCapacity(query)
           /\ query = <<"use", " ", "2", " ", "forklifts">> =>
                  /\ fleet.modify_fleet_size = [needed |-> TRUE, new_size |-> 2]
                  /\ ~ fleet.modify_capacity.needed
                  /\ \A e \in DOMAIN edits : ~ edits[e].needed

----------------------------------------------------------------------------
(* Data Modifier: removal and addition of orders *)

Modified == modified_data # NotSet
Loaded == transport_data # NotSet
\* the areas of the ChangeRequest the Data Modifier reads
Changes(cr) == Get(cr, "transport_data_changes", EmptyDict)
RemoveOrders(cr) == Get(Changes(cr), "remove_orders", EmptyDict)
NewOrders(cr) == Get(cr, "new_orders", <<>>)
\* every edit flag of the request is an object {needed, ...}
FlagsAreObjects(cr) ==
    /\ IsDict(Changes(cr))
    /\ \A e \in DOMAIN Changes(cr) : IsDict(Changes(cr)[e])
NoOpRequest(cr) ==
    /\ FlagsAreObjects(cr)
    /\ Get(RemoveOrders(cr), "needed", FALSE) = FALSE
    /\ NewOrders(cr) = <<>>

\* C13: for a ChangeRequest with remove_orders.needed = false and empty or
\* absent new_orders, the order set the Data Modifier returns is the order
\* set it loaded: the same number of orders, each unchanged, whatever the
\* service-time, time-window and fleet flags and the removal indices say.
C13_IdentityOnNoOp ==
    (Modified /\ Loaded /\ NoOpRequest(analyze_result)) =>
        /\ Has(modified_data, "transport_data")
        /\ Len(modified_data.transport_data) = Len(transport_data.rows)
        /\ modified_data.transport_data = transport_data.rows

C13_Witness ==
    /\ Modified
    /\ Loaded
    /\ NoOpRequest(analyze_result)
    /\ Changes(analyze_result) = LLMObject("edits").transport_data_changes
    /\ Changes(analyze_result).modify_service_times.needed
    /\ Changes(analyze_result).modify_time_windows.needed
    /\ RemoveOrders(analyze_result) = [needed |-> FALSE, order_indices |-> <<0>>]
    /\ Len(transport_data.rows) = 9
    /\ modified_data.transport_data = DefaultTransportData

\* the request asks for a removal, with indices that all lie in 0..N-1
ValidRemoval(cr, N) ==
    /\ FlagsAreObjects(cr)
    /\ Get(RemoveOrders(cr), "needed", FALSE) = TRUE
    /\ Get(RemoveOrders(cr), "order_indices", <<>>) # <<>>
    /\ Range(RemoveOrders(cr).order_indices) \subseteq 0..(N - 1)
\* the positions (0-based) of the loaded orders that are not removed, ascending
Survivors(cr, N) == SeqOfSet((0..(N - 1)) \ Range(RemoveOrders(cr).order_indices))

\* C14: with remove_orders.needed = true and a non-empty list of indices that
\* are valid 0-based positions of the loaded order set of size N, the Data
\* Modifier drops exactly the orders at those positions: the k-th order of
\* its output is the k-th surviving order of the loaded set (the relative
\* order is kept and the result is indexed contiguously from 0), followed
\* by the new orders; removing index 0 from the 9-row default data set
\* leaves its last 8 rows.
C14_RemovalByIndex ==
    (Modified /\ Loaded /\ ValidRemoval(analyze_result, Len(transport_data.rows))) =>
        LET rows == transport_data.rows
            kept == Survivors(analyze_result, Len(rows))
            added == Len(NewOrders(analyze_result))
        IN /\ Has(modified_data, "transport_data")
           /\ Len(modified_data.transport_data) = Len(kept) + added
           /\ \A k \in 1..Len(kept) : modified_data.transport_data[k] = rows[kept[k] + 1]
           /\ (rows = DefaultTransportData /\ RemoveOrders(analyze_result).order_indices = <<0>>
                  /\ added = 0)
                 => modified_data.transport_data = SubSeq(DefaultTransportData, 2, 9)

C14_Witness ==
    /\ Modified
    /\ Loaded
    /\ ValidRemoval(analyze_result, Len(transport_data.rows))
    /\ RemoveOrders(analyze_result).order_indices = <<2, 0>>
    /\ transport_data.rows = DefaultTransportData
    /\ Len(modified_data.transport_data) = 7
    /\ modified_data.transport_data[1] = DefaultTransportData[2]
    /\ modified_data.transport_data[2] = DefaultTransportData[4]

----------------------------------------------------------------------------
(* Problem Builder: the tasks of a SolverProblem *)

\* build returned a SolverProblem for the order set the Data Modifier delivered
Built == cuopt_input # NotSet /\ Has(cuopt_input, "task_data")
Delivered == Modified /\ Has(modified_data, "transport_data")
Orders == modified_data.transport_data
\* entry 2i (0-based) of a task array is that of order i's pickup, entry 2i+1
\* that of its delivery
Interleaved(array, pickup, delivery) ==
    /\ Len(array) = 2 * Len(Orders)
    /\ \A i \in 0..(Len(Orders) - 1) :
          /\ array[2 * i + 1] = pickup[i + 1]
          /\ array[2 * i + 2] = delivery[i + 1]
PairsOfOrders ==
    LET pairs == cuopt_input.task_data.pickup_and_delivery_pairs
    IN /\ Len(pairs) = Len(Orders)
       /\ \A i \in 0..(Len(Orders) - 1) : pairs[i + 1] = <<2 * i, 2 * i + 1>>

\* C15 as claimed: for an order set of size N >= 1 the SolverProblem's
\* task_locations, demand, task_time_windows and service_times each have
\* exactly 2N entries, there are N pairs [2i, 2i+1], and demand[2i] =
\* -demand[2i+1] for every order i.
C15_TwoNEntries ==
    (Built /\ Delivered /\ Len(Orders) >= 1) =>
        LET task_data == cuopt_input.task_data
            N == Len(Orders)
        IN /\ Len(task_data.task_locations) = 2 * N
           /\ Len(task_data.demand) = 2 * N
           /\ Len(task_data.task_time_windows) = 2 * N
           /\ Len(task_data.service_times) = 2 * N
           /\ PairsOfOrders
           /\ \A i \in 0..(N - 1) : task_data.demand[2 * i + 1] = 0 - task_data.demand[2 * i + 2]

\* C15 as amended: whenever build returns a SolverProblem for an order set
\* of size N >= 1, task_locations, task_time_windows and service_times have
\* exactly 2N entries, demand is a list of exactly one list of 2N entries
\* (pickup of order i at 2i, delivery at 2i+1, in all four arrays), there
\* are N pairs with pairs[i] = [2i, 2i+1], and the delivery demand of every
\* order is the negated pickup demand.
C15_InterleavedTasks ==
    (Built /\ Delivered /\ Len(Orders) >= 1) =>
        LET task_data == cuopt_input.task_data
            O == 1..Len(Orders)
            PickupLocation == [i \in O |-> Orders[i].pickup_location]
            DeliveryLocation == [i \in O |-> Orders[i].delivery_location]
            PickupDemand == [i \in O |-> Orders[i].order_demand]
            DeliveryDemand == [i \in O |-> 0 - Orders[i].order_demand]
            PickupWindow == [i \in O |-> <<Orders[i].earliest_pickup, Orders[i].latest_pickup>>]
            DeliveryWindow == [i \in O |-> <<Orders[i].earliest_delivery, Orders[i].latest_delivery>>]
            PickupService == [i \in O |-> Orders[i].pickup_service_time]
            DeliveryService == [i \in O |-> Orders[i].delivery_service_time]
        IN /\ Interleaved(task_data.task_locations, PickupLocation, DeliveryLocation)
           /\ Len(task_data.demand) = 1
           /\ Interleaved(task_data.demand[1], PickupDemand, DeliveryDemand)
           /\ Interleaved(task_data.task_time_windows, PickupWindow, DeliveryWindow)
           /\ Interleaved(task_data.service_times, PickupService, DeliveryService)
           /\ PairsOfOrders
           /\ \A i \in 0..(Len(Orders) - 1) :
                  task_data.demand[1][2 * i + 1] = 0 - task_data.demand[1][2 * i + 2]

C15_Witness ==
    /\ Built
    /\ Delivered
    /\ Len(Orders) = 2
    /\ cuopt_input.task_data.task_locations = <<2, 6, 4, 6>>
    /\ cuopt_input.task_data.demand = <<(<<3, -3, 2, -2>>)>>
    /\ cuopt_input.task_data.pickup_and_delivery_pairs = <<(<<0, 1>>), (<<2, 3>>)>>

\* build was called and returned
BuildCalled == Len(calls) >= 3
BuildReturned == cuopt_input # NotSet
IsErrorResult(out) == DOMAIN out = {"error"}
IsSolverProblem(out) ==
    /\ DOMAIN out = {"cost_waypoint_graph_data", "task_data", "fleet_data", "solver_config"}
    /\ DOMAIN out.task_data = {"task_locations", "demand", "task_time_windows", "service_times",
                               "pickup_and_delivery_pairs"}
    /\ DOMAIN out.fleet_data = {"vehicle_locations", "capacities", "vehicle_time_windows"}
    /\ DOMAIN out.solver_config = {"time_limit"}
\* a field of the order has no integer value
NotCoercible(order) == \E c \in DOMAIN order : order[c] = NaN
NoOrders == ~ Delivered \/ Len(Orders) = 0
\* the message says so, after the builder's prefix
Mentions(message, part) == \E i \in 2..Len(message) : message[i] = part
NamesRow(message, k) ==
    \E i \in 2..(Len(message) - 1) :
        message[i] = "Invalid data in row " /\ message[i + 1] = ToString(k)

OrdersOf(b) == IF Has(b.input.arg, "transport_data")
               THEN [rows |-> b.input.arg.transport_data] ELSE NotSet
FleetOf(b) == Get(b.input.arg, "fleet_changes", EmptyDict)
SameInputs(a, b) == OrdersOf(a) = OrdersOf(b) /\ FleetOf(a) = FleetOf(b)

----------------------------------------------------------------------------
(* Problem Builder: the fleet of a SolverProblem *)

\* the fleet changes build was given, and whether one of them is needed
GivenFleetChange(name) ==
    Get(Get(modified_data, "fleet_changes", EmptyDict), name, EmptyDict)
FleetChangeNeeded(name) == Get(GivenFleetChange(name), "needed", FALSE)

\* C18: in every SolverProblem the fleet size is 4 unless
\* modify_fleet_size.needed, then it is new_size alone, and the capacity is 1
\* unless modify_capacity.needed, then it is new_capacity alone;
\* vehicle_locations, vehicle_time_windows and the single capacity list have
\* exactly fleet-size entries, every vehicle starts (and ends) at location 0
\* with time window [0, 100], and the solve time limit is 5.
C18_FleetDefaultsAndOverrides ==
    (Built /\ Modified) =>
        LET fleet_data == cuopt_input.fleet_data
            size == IF FleetChangeNeeded("modify_fleet_size")
                    THEN GivenFleetChange("modify_fleet_size").new_size ELSE 4
            capacity == IF FleetChangeNeeded("modify_capacity")
                        THEN GivenFleetChange("modify_capacity").new_capacity ELSE 1
        IN /\ Len(fleet_data.vehicle_locations) = size
           /\ Len(fleet_data.vehicle_time_windows) = size
           /\ Len(fleet_data.capacities) = 1
           /\ Len(fleet_data.capacities[1]) = size
           /\ \A v \in 1..size :
                 /\ fleet_data.vehicle_locations[v] = <<0, 0>>
                 /\ fleet_data.vehicle_time_windows[v] = <<0, 100>>
                 /\ fleet_data.capacities[1][v] = capacity
           /\ cuopt_input.solver_config.time_limit = 5

C18_Witness ==
    /\ Built
    /\ Modified
    /\ FleetChangeNeeded("modify_fleet_size")
    /\ GivenFleetChange("modify_fleet_size").new_size = 2
    /\ ~ FleetChangeNeeded("modify_capacity")
    /\ cuopt_input.fleet_data.vehicle_locations = <<(<<0, 0>>), (<<0, 0>>)>>
    /\ cuopt_input.fleet_data.capacities = <<(<<1, 1>>)>>
    /\ cuopt_input.fleet_data.vehicle_time_windows = <<(<<0, 100>>), (<<0, 100>>)>>

----------------------------------------------------------------------------
(* Solver Gateway: the readable routes of a SolutionRecord *)

Solved == solution # NotSet /\ Has(solution, "solution")
SolutionRecord == solution.solution
Min(a, b) == IF a <= b THEN a ELSE b
\* the positions (from 1) of the first n activity tags that are not a wait
NonWait(type, n) == {i \in 1..Min(n, Len(type)) : type[i] # "w"}

\* C19 as claimed: for every vehicle v of a SolutionRecord, readable_routes[v]
\* has as many steps as vehicle_data[v].type has entries that are not a wait,
\* also when route and type differ in length.
C19_ReadableLength ==
    Solved =>
        \A v \in DOMAIN SolutionRecord.vehicle_data :
            LET data == SolutionRecord.vehicle_data[v]
            IN Len(SolutionRecord.readable_routes[v]) = Cardinality(NonWait(data.type, Len(data.type)))

\* C19 as amended: readable_routes[v] has as many steps as there are non-wait
\* entries among the first min(len(route), len(type)) entries of type; this
\* is the number of all non-wait entries of type whenever route is at least
\* as long as type (equal lengths included).
C19_ReadableLengthPaired ==
    Solved =>
        \A v \in DOMAIN SolutionRecord.vehicle_data :
            LET data == SolutionRecord.vehicle_data[v]
                steps == Len(SolutionRecord.readable_routes[v])
            IN /\ steps = Cardinality(NonWait(data.type, Len(data.route)))
               /\ Len(data.route) >= Len(data.type) =>
                     steps = Cardinality(NonWait(data.type, Len(data.type)))

C19_Witness ==
    /\ Solved
    /\ "2" \in DOMAIN SolutionRecord.vehicle_data
    /\ Len(SolutionRecord.vehicle_data["2"].route) = 2
    /\ Cardinality(NonWait(SolutionRecord.vehicle_data["2"].type, 3)) = 3
    /\ Len(SolutionRecord.readable_routes["2"]) = 2
    /\ Len(SolutionRecord.vehicle_data["0"].route) > Len(SolutionRecord.vehicle_data["0"].type)
    /\ Len(SolutionRecord.readable_routes["0"]) = 3

\* the location names of the response normalization, for locations 0 to 8
LocationNames == <<": Forklift", ": Insulation", ": Weather Stripping", ": Fiber Glass",
                   ": Shingles", ": Truck 1", ": Truck 2", ": Truck 3", ": Truck 4">>
\* the step made of entry i of a vehicle's raw route and type
StepOf(data, i) == <<data.type[i], LocationNames[data.route[i] + 1]>>

\* C20: the k-th step of readable_routes[v] is the activity tag type[i]
\* followed by the name of location route[i], for i the k-th index (in route
\* order) that has a tag and whose tag is not a wait; and the record's
\* status, solution_cost and vehicle_data are those of the raw
\* solver_response, unmodified.
C20_StepsPairedAndRawKept ==
    Solved =>
        LET raw == RawSolverResponse(http.response)
        IN /\ \A v \in DOMAIN SolutionRecord.vehicle_data :
                 LET data == SolutionRecord.vehicle_data[v]
                     index == SeqOfSet(NonWait(data.type, Len(data.route)))
                     steps == SolutionRecord.readable_routes[v]
                 IN /\ Len(steps) = Len(index)
                    /\ \A k \in 1..Len(steps) :
                          /\ steps[k] = StepOf(data, index[k])
                          /\ data.type[index[k]] # "w"
           /\ DOMAIN SolutionRecord.readable_routes = DOMAIN SolutionRecord.vehicle_data
           /\ Has(raw, "status") => SolutionRecord.status = raw.status
           /\ Has(raw, "solution_cost") => SolutionRecord.solution_cost = raw.solution_cost
           /\ Has(raw, "vehicle_data") => SolutionRecord.vehicle_data = raw.vehicle_data

C20_Witness ==
    /\ Solved
    /\ Has(RawSolverResponse(http.response), "vehicle_data")
    /\ "1" \in DOMAIN SolutionRecord.vehicle_data
    /\ SolutionRecord.vehicle_data["1"].type = <<"Depot", "w", "Pickup", "Delivery", "Depot">>
    /\ SolutionRecord.vehicle_data["1"].route = <<0, 2, 2, 6, 0>>
    /\ SolutionRecord.readable_routes["1"] =
           << <<"Depot", ": Forklift">>, <<"Pickup", ": Weather Stripping">>,
              <<"Delivery", ": Truck 2">>, <<"Depot", ": Forklift">> >>
    /\ SolutionRecord.status = "0"
    /\ SolutionRecord.solution_cost = "31"

----------------------------------------------------------------------------
(* C21: runs served side by side do not see each other's state *)

RunDone(r) == runs[r].pc = "done"
RunStarted(r) == runs[r].pc # "idle"
VisualizationFailed(r) == runs[r].state.visualization_timestamp = None
\* what run r itself has to report: its own solver error, its own rendering failure
OwnErrors(r) ==
    (IF Has(runs[r].solution, "error") THEN <<runs[r].solution.error>> ELSE <<>>) \o
    (IF VisualizationFailed(r) THEN <<<<"Visualization failed: ", "Permission denied">>>> ELSE <<>>)
OwnLogs(r) ==
    IF VisualizationFailed(r) THEN <<<<"ERROR: ", "Visualization failed: ", "Permission denied">>>>
    ELSE <<<<"Visualizations created successfully">>>>

\* C21: every query gets a FactoryState of its own whose errors and logs are
\* empty lists no other run refers to; the errors and logs a run returns are
\* exactly the ones that run recorded itself, however the runs interleave at
\* their suspension points; and the order set a run works on is computed from
\* the order file alone, which no run writes, so that what one run removed
\* or added is not seen by the other.
C21_RunsIsolated ==
    \A r \in DOMAIN runs :
        /\ RunStarted(r) /\ ~ RunDone(r) =>
               heap[runs[r].state.errors] = <<>> /\ heap[runs[r].state.logs] = <<>>
        /\ \A other \in DOMAIN runs \ {r} :
               RunStarted(r) /\ RunStarted(other) =>
                   {runs[r].state.errors, runs[r].state.logs} \cap
                   {runs[other].state.errors, runs[other].state.logs} = {}
        /\ RunDone(r) =>
               /\ runs[r].result.errors = OwnErrors(r)
               /\ heap[runs[r].state.errors] = OwnErrors(r)
               /\ runs[r].result.logs = OwnLogs(r)
        /\ filesystem.csv \in SessionCsvFiles
        /\ runs[r].modified_data # NotSet =>
               runs[r].modified_data = _modify_data_fn(runs[r].analyze_result, filesystem.csv)

\* both queries are answered, one with an error and with order 0 removed,
\* the other without error and with every order of the file
C21_Witness ==
    /\ runs # <<>>
    /\ RunDone(1) /\ RunDone(2)
    /\ runs[1].result.errors # <<>>
    /\ runs[2].result.errors = <<>>
    /\ Has(runs[1].modified_data, "transport_data")
    /\ Has(runs[2].modified_data, "transport_data")
    /\ Len(runs[1].modified_data.transport_data) + 1 = Len(LoadTransportData(filesystem.csv))
    /\ runs[2].modified_data.transport_data = LoadTransportData(filesystem.csv)

----------------------------------------------------------------------------
(* C22: the charts a response embeds *)

\* C22: every chart embedded in the response of a run was rendered by that
\* run itself and never by another run, also when two runs obtain the same
\* timestamp and when the run did not render the chart of one of its vehicles.
C22_OwnChartsOnly ==
    \A r \in DOMAIN runs :
        RunDone(r) => \A e \in runs[r].embedded : e.writer = r

----------------------------------------------------------------------------
(* C23, C24: failures inside the rendering *)

\* visualize_factory_state was called, returned, and had vehicles to draw
RenderingRan ==
    /\ pc \in {"respond", "done"}
    /\ state.visualization_timestamp # None
    /\ state.solution # EmptyDict
    /\ Has(state.solution, "vehicle_data")
Drawable(data) == data.route # <<>> /\ FilteredRoute(data, 1) # <<>>
\* the schedule chart was not produced, or a vehicle with a route has no diagram
RenderingFailed ==
    \/ chart = NotSet
    \/ \E id \in DOMAIN state.solution.vehicle_data :
           Drawable(state.solution.vehicle_data[id]) /\ ~ NetworkRendered(state.solution.vehicle_data, id)

\* C23: whenever the rendering of the schedule chart or of a vehicle's route
\* network diagram failed, the run's errors list holds a record of the
\* visualization failure; and the run still returns its solution and a response.
C23_RenderingFailuresRecorded ==
    /\ RenderingRan /\ RenderingFailed =>
           \E k \in 1..Len(result.errors) : result.errors[k][1] = "Visualization failed: "
    /\ RenderingRan => result.solution = state.solution
    /\ (RenderingRan /\ pc = "done") => response_text # NotSet

\* C24: when the rendering ran, every vehicle that has a route to draw and a
\* well-formed id has its route network diagram saved and its row in the
\* saved schedule chart, whatever is wrong with the other vehicles.
C24_RenderingPerVehicle ==
    RenderingRan =>
        \A id \in DOMAIN state.solution.vehicle_data :
            (Drawable(state.solution.vehicle_data[id]) /\ ~ IntRaises(id)) =>
                /\ NetworkFile(state.visualization_timestamp, IntOf[id] + 1) \in files
                /\ chart # NotSet
                /\ id \in DOMAIN chart.rows
                /\ chart.rows[id].bars # <<>>

----------------------------------------------------------------------------
(* C25, C26: the order of the modifications and the edits without effect *)

OrderIndices(cr) == Get(RemoveOrders(cr), "order_indices", <<>>)
RemovalRequested(cr) == Get(RemoveOrders(cr), "needed", FALSE) = TRUE /\ OrderIndices(cr) # <<>>
\* the loaded orders (0-based positions, ascending) the request does not remove
Remaining(cr, N) ==
    IF RemovalRequested(cr) THEN SeqOfSet((0..(N - 1)) \ Range(OrderIndices(cr)))
    ELSE [k \in 1..N |-> k - 1]

\* C25: for a request whose flags are objects and a loaded order set of N
\* orders: the indices to remove are positions of the loaded set only, so an
\* index outside 0..N-1 (also one that would name an order the request adds)
\* yields an error and no order set; otherwise the output is the loaded
\* orders that are not removed, in their order, followed by the new orders
\* in the order given, N - removed + added orders in all.
C25_RemovalBeforeAddition ==
    (Modified /\ Loaded /\ FlagsAreObjects(analyze_result)) =>
        LET rows == transport_data.rows
            N == Len(rows)
            new_orders == NewOrders(analyze_result)
            kept == Remaining(analyze_result, N)
        IN IF RemovalRequested(analyze_result)
              /\ ~ (Range(OrderIndices(analyze_result)) \subseteq 0..(N - 1))
           THEN ~ Has(modified_data, "transport_data")
           ELSE /\ Has(modified_data, "transport_data")
                /\ Len(modified_data.transport_data) = Len(kept) + Len(new_orders)
                /\ Len(kept) = N - Cardinality(IF RemovalRequested(analyze_result)
                                               THEN Range(OrderIndices(analyze_result)) ELSE {})
                /\ \A k \in 1..Len(kept) : modified_data.transport_data[k] = rows[kept[k] + 1]
                /\ \A k \in 1..Len(new_orders) :
                       \A c \in DOMAIN new_orders[k] :
                           modified_data.transport_data[Len(kept) + k][c] = new_orders[k][c]

\* order 0 of a two-row file is removed and two orders are added: 3 orders
C25_Witness ==
    /\ Modified
    /\ Loaded
    /\ FlagsAreObjects(analyze_result)
    /\ RemovalRequested(analyze_result)
    /\ OrderIndices(analyze_result) = <<0>>
    /\ Len(NewOrders(analyze_result)) = 2
    /\ Len(transport_data.rows) = 2
    /\ Has(modified_data, "transport_data")
    /\ Len(modified_data.transport_data) = 3
    /\ modified_data.transport_data[1] = transport_data.rows[2]
    /\ modified_data.transport_data[2] = NewOrders(analyze_result)[1]

EditRequested(cr, e) == Get(Get(Changes(cr), e, EmptyDict), "needed", FALSE) = TRUE
\* the same request with needed = false in both edits
WithoutEdits(cr) ==
    [cr EXCEPT !.transport_data_changes.modify_service_times.needed = FALSE,
               !.transport_data_changes.modify_time_windows.needed = FALSE]
EditRecords == {Info("Modified service times"), Info("Modified time windows")}
IsEditRecord(rec) == rec \in EditRecords

\* C26: for a request with needed = true in the service-time edit or in the
\* time-window edit, the Data Modifier returns what it returns for the same
\* request with both flags false, every order of its output is, field for
\* field, a loaded order or a new order of the request, and its log differs
\* only by the record of each requested edit.
C26_EditsOnlyLog ==
    (/\ Modified /\ Loaded /\ FlagsAreObjects(analyze_result)
     /\ \E e \in {"modify_service_times", "modify_time_windows"} : EditRequested(analyze_result, e)) =>
        LET plain == WithoutEdits(analyze_result)
            rows == transport_data.rows
            new_orders == NewOrders(analyze_result)
            same_file == [found |-> TRUE, readable |-> TRUE, rows |-> rows]
            NotEdit(rec) == ~ IsEditRecord(rec)
        IN /\ modified_data = _modify_data_fn(plain, same_file)
           /\ SelectSeq(logger, NotEdit) = ModificationLog(plain, rows)
           /\ Has(modified_data, "transport_data") =>
                  /\ \A k \in 1..Len(modified_data.transport_data) :
                         \/ modified_data.transport_data[k] \in Range(rows)
                         \/ \E n \in 1..Len(new_orders) :
                                modified_data.transport_data[k] = AsRow(new_orders[n])
                  /\ EditRequested(analyze_result, "modify_service_times")
                         <=> Info("Modified service times") \in Range(logger)
                  /\ EditRequested(analyze_result, "modify_time_windows")
                         <=> Info("Modified time windows") \in Range(logger)
                  /\ Len(logger) = Len(ModificationLog(plain, rows))
                                   + Cardinality({e \in {"modify_service_times", "modify_time_windows"} :
                                                      EditRequested(analyze_result, e)})

\* both edits are requested together with a removal and an addition
C26_Witness ==
    /\ Modified
    /\ Loaded
    /\ FlagsAreObjects(analyze_result)
    /\ EditRequested(analyze_result, "modify_service_times")
    /\ EditRequested(analyze_result, "modify_time_windows")
    /\ RemovalRequested(analyze_result)
    /\ NewOrders(analyze_result) # <<>>
    /\ Has(modified_data, "transport_data")
    /\ modified_data.transport_data # <<>>
    /\ EditRecords \subseteq Range(logger)

----------------------------------------------------------------------------
(* C27, C28: the schedule chart *)

\* the schedule chart was drawn and saved for the solution of this run
ChartDrawn == chart # NotSet /\ pc \in {"respond", "done"}
Schedule(v) == state.solution.vehicle_data[v]
\* the activities of a vehicle that are not waits, as ascending positions
NonWaits(data) == SeqOfSet({i \in 1..Len(data.type) : data.type[i] # "w"})
\* route, type and arrival_stamp are parallel sequences
Parallel(data) ==
    /\ Len(data.route) = Len(data.type)
    /\ Len(data.type) = Len(data.arrival_stamp)
    /\ data.route # <<>>
AtLeastOne(n) == IF n >= 1 THEN n ELSE 1
PreviousEnd(bars, k) == bars[k - 1].start + bars[k - 1].duration

\* C27 as stated: for a vehicle with parallel sequences there is one bar per
\* non-wait activity, starting at its arrival time; its duration is the gap
\* to the next non-wait activity's arrival time but at least 1, and 2 for the
\* last non-wait activity; a bar that starts after the previous bar ends has
\* a connector.
C27_BarsAndConnectors ==
    ChartDrawn =>
        \A v \in DOMAIN chart.rows :
            Parallel(Schedule(v)) =>
                LET arrival == Schedule(v).arrival_stamp
                    at == NonWaits(Schedule(v))
                    bars == chart.rows[v].bars
                IN /\ Len(bars) = Len(at)
                   /\ \A k \in 1..Len(at) :
                          /\ bars[k].start = arrival[at[k]]
                          /\ bars[k].duration = IF k = Len(at) THEN 2
                                                ELSE AtLeastOne(arrival[at[k + 1]] - arrival[at[k]])
                   /\ \A k \in 2..Len(at) :
                          bars[k].start > PreviousEnd(bars, k) =>
                              \E c \in chart.rows[v].connectors : c.bar = k

\* the non-wait activities that have a route entry and an arrival time
Drawn(data) ==
    IF data.route = <<>> \/ data.type = <<>> \/ data.arrival_stamp = <<>> THEN <<>>
    ELSE SeqOfSet({i \in 1..Len(data.type) :
                      data.type[i] # "w" /\ i <= Len(data.route) /\ i <= Len(data.arrival_stamp)})

\* C27, amended: there is one bar per non-wait activity that has a route
\* entry and an arrival time, starting at its arrival time; the duration of
\* a bar followed by another bar is the gap to that next non-wait activity's
\* arrival time, at least 1; the duration of the vehicle's last bar is 2 only
\* if its activity is the last entry of arrival_stamp, and otherwise the gap
\* to the arrival time of the entry right after it, at least 1; no bar
\* starts later than the previous bar of the vehicle ends, and no connector
\* is drawn.
C27_BarsSpanToNextArrival ==
    ChartDrawn =>
        \A v \in DOMAIN chart.rows :
            LET arrival == Schedule(v).arrival_stamp
                at == Drawn(Schedule(v))
                bars == chart.rows[v].bars
            IN /\ Len(bars) = Len(at)
               /\ \A k \in 1..Len(at) :
                      /\ bars[k].start = arrival[at[k]]
                      /\ bars[k].duration =
                             IF k < Len(at) THEN AtLeastOne(arrival[at[k + 1]] - arrival[at[k]])
                             ELSE IF at[k] < Len(arrival)
                                  THEN AtLeastOne(arrival[at[k] + 1] - arrival[at[k]])
                                  ELSE 2
               /\ \A k \in 2..Len(at) : bars[k].start <= PreviousEnd(bars, k)
               /\ chart.rows[v].connectors = {}

\* two activities and a wait after them: the last bar spans to the wait's arrival
C27_Witness ==
    /\ ChartDrawn
    /\ DOMAIN chart.rows = {"0"}
    /\ Schedule("0").type = <<"Pickup", "Pickup", "w">>
    /\ Schedule("0").arrival_stamp = <<0, 3, 3>>
    /\ chart.rows["0"].bars = << [index |-> 1, start |-> 0, duration |-> 3],
                                 [index |-> 2, start |-> 3, duration |-> 1] >>

\* C28: the saved schedule chart carries the notice 'No valid schedule data
\* available' exactly when no activity bar was drawn for any vehicle.
C28_NoticeIffNoBars ==
    ChartDrawn =>
        (chart.notice <=> \A v \in DOMAIN chart.rows : chart.rows[v].bars = <<>>)

----------------------------------------------------------------------------
(* C29: the request id of a poll *)

Awaiting == pc = "poll" /\ Responded /\ http.response.status_code = 202

\* C29: while the latest response is a 202, the next request, if any, is a
\* GET to the status endpoint at the NVCF-REQID of that latest response (the
\* POST's response for the first poll, the previous poll's response for the
\* later ones); if that 202 response has no NVCF-REQID header no request is
\* sent any more and the solve returns an {error} without a solution.
C29_PollUsesLatestRequestId ==
    /\ [][Awaiting =>
            IF Has(http.response.headers, "NVCF-REQID")
            THEN RequestSent =>
                     /\ http'.request.method = "GET"
                     /\ http'.request.url =
                            CUOPT_STATUS_URL \o <<http.response.headers["NVCF-REQID"]>>
            ELSE /\ ~ RequestSent
                 /\ pc' = "update"
                 /\ Has(solution', "error")
                 /\ ~ Has(solution', "solution")]_vars
    /\ []((/\ pc \in {"update", "respond", "done"}
           /\ Responded
           /\ http.response.status_code = 202
           /\ ~ Has(http.response.headers, "NVCF-REQID"))
              => (Has(solution, "error") /\ ~ Has(solution, "solution")))

\* the second poll asks for the id the first poll's response carried, which
\* differs from the id the second poll's response carries
C29_Witness ==
    /\ pc = "poll"
    /\ http.gets = 2
    /\ http.request.method = "GET"
    /\ http.request.url = CUOPT_STATUS_URL \o <<"req-2">>
    /\ http.response.status_code = 202
    /\ Has(http.response.headers, "NVCF-REQID")
    /\ http.response.headers["NVCF-REQID"] = "req-1"

----------------------------------------------------------------------------
(* C30: the query_type of the result *)

\* C30: the FactoryState's query_type stays 'route_optimization'; the result
\* of a run that completed the pipeline has query_type 'route_optimization'
\* whatever query_type the analysis and the modified data carry; the result
\* of a run in which an exception escaped has neither a query_type nor a
\* visualization_timestamp entry.
C30_QueryTypeFixed ==
    /\ state.query_type = "route_optimization"
    /\ ReturnedNormally =>
           /\ Has(result, "query_type")
           /\ result.query_type = "route_optimization"
    /\ (Returned /\ Has(result, "error")) =>
           /\ ~ Has(result, "query_type")
           /\ ~ Has(result, "visualization_timestamp")

\* a removal request: the analysis and the modified data say 'remove_order'
C30_Witness ==
    /\ ReturnedNormally
    /\ Len(calls) = 4
    /\ Get(analyze_result, "query_type", None) = "remove_order"
    /\ Has(modified_data, "query_type")
    /\ modified_data.query_type = "remove_order"
    /\ state.solution # EmptyDict
    /\ result.query_type = "route_optimization"

====
